---- MODULE Spec2Model ----
(***************************************************************************)
(* Record store and filter pipeline of the batch ASIN scraper              *)
(* (src/src/database.py, src/src/scraper.py).                              *)
(*                                                                         *)
(* The asins table is a function from (asin, keyword) keys to rows.  A     *)
(* nullable column holds a set with at most one element: {} is SQL NULL    *)
(* and {v} is the value v, so every SQL comparison with NULL is false      *)
(* without a sentinel number.  Prices are in cents.  Dates are day         *)
(* numbers: the code stores '%Y-%m-%d' strings and compares them as text,  *)
(* which orders them as the days they denote.                              *)
(***************************************************************************)
EXTENDS Integers, Sequences, FiniteSets, TLC

VARIABLES
    asins,      \* the asins table: [present keys -> row]
    ss_data,    \* the sellerspirit_data table of today: [keyword -> [asin -> category_sub]]
    op,         \* the last store operation and its arguments
    ret,        \* what the last store operation returned
    pc,         \* position of run() in its step list
    runs,       \* number of completed run() invocations
    input,      \* the collaborators' answers, fixed for a behaviour
    results,    \* the search_results list run() carries from step 1 on
    stats,      \* results of the filter steps of the current run()
    report,     \* per completed run: the step results and the exported asins
    saved,      \* history: the item most recently handed to save_asins, per key
    cache,      \* the apify_cache table: [cached asins -> entry]
    now,        \* the time, in ticks of UTC since the cache file was created
    fetchers,   \* the calls of get_multiple_price_history in progress
    ai,         \* the GeminiProductAnalyzer and its batch in progress
    history_cache   \* the sellerspirit_history_cache table: [cached asins -> updated_at]

vars == <<asins, ss_data, op, ret, pc, runs, input, results, stats, report, saved,
          cache, now, fetchers, ai, history_cache>>

----------------------------------------------------------------------------
(* Bounds and value universes                                              *)

MaxBatch == 2           \* longest item list handed to save_asins by Next
Today == 400            \* day number of datetime.now()

DaysPerMonth == 30
DefaultMonths == 6
MinCoveragePct == 90
HalfPct == 50

ASINS == {"a1", "a2", "a3"}
KEYWORDS == {"k1", "k2"}
CATEGORIES == {"X", "Y"}

Null == {}
Val(v) == {v}
IsNull(x) == x = {}
The(x) == CHOOSE v \in x : TRUE

\* filter_status tags (database.py:56, 1188, 1197, 957)
TagSponsored == "sponsored"
TagCategory == "category_filtered"
TagSales == "sales_filtered"
TagPrice == "price_filtered"
TagListingDate == "listing_date_filtered"
TagSalesMonths == "sales_months_filtered"
Tags == {TagSponsored, TagCategory, TagSales, TagPrice, TagListingDate, TagSalesMonths}

\* the rows of "WHERE keyword = ?"; without the condition, every row
KeysOfEveryKeyword(db, keyword) == DOMAIN db
Keys(db, keyword) == {k \in DOMAIN db : k[2] = keyword}
Unfiltered(db, keyword) == {k \in Keys(db, keyword) : IsNull(db[k].filter_status)}

RECURSIVE SumOver(_, _)
SumOver(S, f) ==
    IF S = {} THEN 0
    ELSE LET x == CHOOSE y \in S : TRUE IN f[x] + SumOver(S \ {x}, f)

\* SQL comparisons: false when the column is NULL
SqlGt(col, v) == \E x \in col : x > v
SqlLt(col, v) == \E x \in col : x < v
SqlNe(col, v) == \E x \in col : x # v

----------------------------------------------------------------------------
(* utils.py                                                                *)

\* parse_price on the None and the numeric branch (prices arrive in cents)
parse_price(price) == price

\* parse_sales on a missing purchase_history_message: "无数据时返回 0"
parse_sales(message) == IF IsNull(message) THEN Val(0) ELSE message

----------------------------------------------------------------------------
(* database.py: save_asins                                                 *)

\* The row INSERT OR REPLACE writes for one item.  Only the listed columns
\* are bound; every other column of the new row takes its default (NULL),
\* filter_status and the history columns included.
NewRow(item, source_type, source_value) ==
    [ source_type        |-> source_type,
      source_value       |-> source_value,
      category_sub       |-> item.category_sub,
      price              |-> parse_price(item.price),
      sales_volume       |-> IF ~IsNull(item.sales_volume)
                             THEN item.sales_volume
                             ELSE parse_sales(item.purchase_history_message),
      is_sponsored       |-> IF item.is_sponsored = Val(TRUE) THEN 1 ELSE 0,
      filter_status      |-> Null,
      listing_date       |-> Null,
      sales_months_count |-> Null,
      price_min          |-> Null,
      created_at         |-> Today ]


\* INSERT OR IGNORE in place of INSERT OR REPLACE: an existing row is kept
SaveOneIgnore(db, item, keyword, source_type, source_value) ==
    IF IsNull(item.asin) \/ item.asin = Val("")
    THEN db
    ELSE LET k == <<The(item.asin), keyword>>
             row == NewRow(item, source_type, source_value)
         IN IF k \in DOMAIN db THEN db
            ELSE [x \in DOMAIN db \cup {k} |-> IF x = k THEN row ELSE db[x]]

\* one iteration of the loop of save_asins
SaveOne(db, item, keyword, source_type, source_value) ==
    IF IsNull(item.asin) \/ item.asin = Val("")
    THEN db
    ELSE LET k == <<The(item.asin), keyword>>
             row == NewRow(item, source_type, source_value)
         IN [x \in DOMAIN db \cup {k} |-> IF x = k THEN row ELSE db[x]]

RECURSIVE SaveLoop(_, _, _, _, _)
SaveLoop(db, items, keyword, source_type, source_value) ==
    IF items = <<>> THEN db
    ELSE SaveLoop(SaveOne(db, Head(items), keyword, source_type, source_value),
                  Tail(items), keyword, source_type, source_value)

Saved(items) ==
    Cardinality({i \in DOMAIN items :
                    ~(IsNull(items[i].asin) \/ items[i].asin = Val(""))})

save_asins(db, items, keyword, source_type, source_value) ==
    [ db  |-> SaveLoop(db, items, keyword, source_type, source_value),
      ret |-> Saved(items) ]

----------------------------------------------------------------------------
(* database.py: counts and reset                                           *)

get_asin_count(db, keyword, include_filtered) ==
    IF include_filtered
    THEN Cardinality({k[1] : k \in Keys(db, keyword)})
    ELSE Cardinality({k[1] : k \in Unfiltered(db, keyword)})

get_existing_asins(db, keyword) == {k[1] : k \in Keys(db, keyword)}

\* UPDATE ... SET filter_status = tag WHERE key in S
SetStatus(db, S, status) ==
    [k \in DOMAIN db |-> IF k \in S THEN [db[k] EXCEPT !.filter_status = status]
                                    ELSE db[k]]


\* reset without "AND filter_status IS NOT NULL": rowcount is every row
ResetCountingAllRows(db, keyword) ==
    [ db  |-> SetStatus(db, Keys(db, keyword), Null),
      ret |-> Cardinality(Keys(db, keyword)) ]

reset_filter_status(db, keyword) ==
    LET hit == {k \in Keys(db, keyword) : ~IsNull(db[k].filter_status)}
    IN [ db  |-> SetStatus(db, hit, Null),
         ret |-> Cardinality(hit) ]

----------------------------------------------------------------------------
(* database.py: the filter stages.  Each returns the new table and the     *)
(* dictionary the method returns.                                          *)


\* the docstring's "删除 is_sponsored=1 的记录" taken literally: DELETE
FilterSponsoredDeleting(db, keyword) ==
    LET total == Cardinality(Keys(db, keyword))
        hit == {k \in Unfiltered(db, keyword) : db[k].is_sponsored = 1}
    IN [ db  |-> [k \in DOMAIN db \ hit |-> db[k]],
         ret |-> [ total |-> total, sponsored_count |-> Cardinality(hit),
                   removed |-> Cardinality(hit), kept |-> total - Cardinality(hit) ] ]

filter_sponsored_asins(db, keyword) ==
    LET total == Cardinality(Keys(db, keyword))
        sponsored_count == Cardinality({k \in Keys(db, keyword) : db[k].is_sponsored = 1})
        hit == {k \in Unfiltered(db, keyword) : db[k].is_sponsored = 1}
        removed == Cardinality(hit)
    IN [ db  |-> SetStatus(db, hit, Val(TagSponsored)),
         ret |-> [ total |-> total, sponsored_count |-> sponsored_count,
                   removed |-> removed, kept |-> total - removed ] ]


\* the UPDATE without "AND filter_status IS NULL": tagged rows are re-tagged
FilterLowSalesRetagging(db, keyword, max_sales) ==
    LET total == Cardinality(Unfiltered(db, keyword))
        hit == {k \in Keys(db, keyword) : SqlGt(db[k].sales_volume, max_sales)}
        removed == Cardinality(hit)
    IN [ db  |-> SetStatus(db, hit, Val(TagSales)),
         ret |-> [ total |-> total, removed |-> removed, kept |-> total - removed ] ]

filter_low_sales_asins(db, keyword, max_sales) ==
    LET total == Cardinality(Unfiltered(db, keyword))
        hit == {k \in Unfiltered(db, keyword) : SqlGt(db[k].sales_volume, max_sales)}
        removed == Cardinality(hit)
    IN [ db  |-> SetStatus(db, hit, Val(TagSales)),
         ret |-> [ total |-> total, removed |-> removed, kept |-> total - removed ] ]

\* BINARY collation order of the category names of the model
CategoryRank == [c \in CATEGORIES \cup {""} |->
                    IF c = "" THEN 0 ELSE IF c = "X" THEN 1 ELSE 2]

\* GROUP BY category_sub over the unfiltered rows with a non-empty category
GroupCount(db, keyword, c) ==
    Cardinality({k \in Unfiltered(db, keyword) : db[k].category_sub = Val(c)})

Groups(db, keyword) ==
    {c \in CATEGORIES : GroupCount(db, keyword, c) > 0}

\* ORDER BY cnt DESC LIMIT 1.  Among groups of equal count SQLite returns
\* the one that sorts last: the groups come out of GROUP BY in ascending
\* order and the descending sort reverses it.
TopCategory(db, keyword) ==
    CHOOSE c \in Groups(db, keyword) :
        \A d \in Groups(db, keyword) :
            \/ GroupCount(db, keyword, c) > GroupCount(db, keyword, d)
            \/ /\ GroupCount(db, keyword, c) = GroupCount(db, keyword, d)
               /\ CategoryRank[c] >= CategoryRank[d]

\* round(a / n) to the nearest unit, exact halves to the even neighbour
RoundDiv(a, n) ==
    LET q == a \div n
        r == a % n
    IN IF 2 * r < n THEN q
       ELSE IF 2 * r > n THEN q + 1
       ELSE IF q % 2 = 0 THEN q ELSE q + 1

\* the rows the two price queries of filter_by_top_category read: every row
\* of the keyword in the category with a positive price, tagged or not
PricedRows(db, keyword, c) ==
    {k \in Keys(db, keyword) : db[k].category_sub = Val(c) /\ SqlGt(db[k].price, 0)}

RECURSIVE SortedPrices(_, _)
SortedPrices(db, S) ==
    IF S = {} THEN <<>>
    ELSE LET k == CHOOSE x \in S : \A y \in S : The(db[x].price) <= The(db[y].price)
         IN <<The(db[k].price)>> \o SortedPrices(db, S \ {k})

AvgPrice(db, S) ==
    IF S = {} THEN Null
    ELSE Val(RoundDiv(SumOver(S, [k \in S |-> The(db[k].price)]), Cardinality(S)))

MedianPrice(prices) ==
    LET n == Len(prices)
    IN IF n = 0 THEN Null
       ELSE IF n % 2 = 1 THEN Val(prices[(n \div 2) + 1])
       ELSE Val(RoundDiv(prices[n \div 2] + prices[(n \div 2) + 1], 2))


\* the UPDATE with "category_sub != ?" alone, which no NULL category matches
FilterByTopCategoryKeepingNull(db, keyword) ==
    LET total == Cardinality(Unfiltered(db, keyword))
    IN IF total = 0 \/ Groups(db, keyword) = {}
       THEN [ db  |-> db,
              ret |-> [ total |-> total, top_category |-> Null, top_category_count |-> 0,
                        removed |-> 0, kept |-> total,
                        avg_price |-> Null, median_price |-> Null ] ]
       ELSE LET top == TopCategory(db, keyword)
                priced == PricedRows(db, keyword, top)
                hit == {k \in Unfiltered(db, keyword) : SqlNe(db[k].category_sub, top)}
                removed == Cardinality(hit)
            IN [ db  |-> SetStatus(db, hit, Val(TagCategory)),
                 ret |-> [ total |-> total, top_category |-> Val(top),
                           top_category_count |-> GroupCount(db, keyword, top),
                           removed |-> removed, kept |-> total - removed,
                           avg_price |-> AvgPrice(db, priced),
                           median_price |-> MedianPrice(SortedPrices(db, priced)) ] ]

filter_by_top_category(db, keyword) ==
    LET total == Cardinality(Unfiltered(db, keyword))
    IN IF total = 0
       THEN [ db  |-> db,
              ret |-> [ total |-> 0, top_category |-> Null, top_category_count |-> 0,
                        removed |-> 0, kept |-> 0,
                        avg_price |-> Null, median_price |-> Null ] ]
       ELSE IF Groups(db, keyword) = {}
       THEN [ db  |-> db,
              ret |-> [ total |-> total, top_category |-> Null, top_category_count |-> 0,
                        removed |-> 0, kept |-> total,
                        avg_price |-> Null, median_price |-> Null ] ]
       ELSE LET top == TopCategory(db, keyword)
                priced == PricedRows(db, keyword, top)
                hit == {k \in Unfiltered(db, keyword) :
                           IsNull(db[k].category_sub) \/ SqlNe(db[k].category_sub, top)}
                removed == Cardinality(hit)
            IN [ db  |-> SetStatus(db, hit, Val(TagCategory)),
                 ret |-> [ total |-> total, top_category |-> Val(top),
                           top_category_count |-> GroupCount(db, keyword, top),
                           removed |-> removed, kept |-> total - removed,
                           avg_price |-> AvgPrice(db, priced),
                           median_price |-> MedianPrice(SortedPrices(db, priced)) ] ]

\* the threshold taken from the prices of the rows still unfiltered, the
\* way scraper.filter_by_price derives it from statistics, not the argument
FilterByPriceOfUnfiltered(db, keyword, max_price) ==
    LET total == Cardinality(Unfiltered(db, keyword))
        priced == {k \in Unfiltered(db, keyword) : SqlGt(db[k].price, 0)}
        avg == AvgPrice(db, priced)
        hit == {k \in priced : \E a \in avg : SqlGt(db[k].price, a)}
        removed == Cardinality(hit)
    IN [ db  |-> SetStatus(db, hit, Val(TagPrice)),
         ret |-> [ total |-> total, max_price |-> max_price,
                   removed |-> removed, kept |-> total - removed ] ]

db_filter_by_price(db, keyword, max_price) ==
    LET total == Cardinality(Unfiltered(db, keyword))
        hit == {k \in Unfiltered(db, keyword) : SqlGt(db[k].price, max_price)}
        removed == Cardinality(hit)
    IN IF total = 0
       THEN [ db |-> db,
              ret |-> [ total |-> 0, max_price |-> max_price, removed |-> 0, kept |-> 0 ] ]
       ELSE [ db  |-> SetStatus(db, hit, Val(TagPrice)),
              ret |-> [ total |-> total, max_price |-> max_price,
                        removed |-> removed, kept |-> total - removed ] ]

CutoffDate(months) == Today - months * DaysPerMonth


\* "sales_months_count >= ?" in place of ">": the boundary month is excluded
FilterByListingDateInclusive(db, keyword, months) ==
    LET cutoff_date == CutoffDate(months)
        total == Cardinality(Unfiltered(db, keyword))
        by_date == {k \in Unfiltered(db, keyword) : SqlLt(db[k].listing_date, cutoff_date)}
        db1 == SetStatus(db, by_date, Val(TagListingDate))
        by_sales_months == {k \in Unfiltered(db1, keyword) :
                               SqlGt(db1[k].sales_months_count, months - 1)}
        removed == Cardinality(by_date) + Cardinality(by_sales_months)
    IN [ db  |-> SetStatus(db1, by_sales_months, Val(TagSalesMonths)),
         ret |-> [ total |-> total, cutoff_date |-> cutoff_date, removed |-> removed,
                   removed_by_date |-> Cardinality(by_date),
                   removed_by_sales_months |-> Cardinality(by_sales_months),
                   kept |-> total - removed ] ]

db_filter_by_listing_date(db, keyword, months) ==
    LET cutoff_date == CutoffDate(months)
        total == Cardinality(Unfiltered(db, keyword))
        by_date == {k \in Unfiltered(db, keyword) : SqlLt(db[k].listing_date, cutoff_date)}
        db1 == SetStatus(db, by_date, Val(TagListingDate))
        by_sales_months == {k \in Unfiltered(db1, keyword) :
                               SqlGt(db1[k].sales_months_count, months)}
        removed == Cardinality(by_date) + Cardinality(by_sales_months)
    IN IF total = 0
       THEN [ db |-> db,
              ret |-> [ total |-> 0, cutoff_date |-> cutoff_date, removed |-> 0,
                        removed_by_date |-> 0, removed_by_sales_months |-> 0, kept |-> 0 ] ]
       ELSE [ db  |-> SetStatus(db1, by_sales_months, Val(TagSalesMonths)),
              ret |-> [ total |-> total, cutoff_date |-> cutoff_date, removed |-> removed,
                        removed_by_date |-> Cardinality(by_date),
                        removed_by_sales_months |-> Cardinality(by_sales_months),
                        kept |-> total - removed ] ]

----------------------------------------------------------------------------
(* database.py: category fill and enrichment updates, export               *)

\* category_map: [asins -> category_sub]; rows that do not exist are not created
batch_update_asin_categories(db, keyword, category_map) ==
    [ db  |-> [k \in DOMAIN db |->
                 IF k[2] = keyword /\ k[1] \in DOMAIN category_map
                 THEN [db[k] EXCEPT !.category_sub = category_map[k[1]]]
                 ELSE db[k]],
      ret |-> Cardinality(DOMAIN category_map) ]

\* history_map: [asins -> [listing_date, sales_months_count, price_min]];
\* every history column is overwritten with the map's value, None included
batch_update_sellerspirit_history(db, keyword, history_map) ==
    [ db  |-> [k \in DOMAIN db |->
                 IF k[2] = keyword /\ k[1] \in DOMAIN history_map
                 THEN [db[k] EXCEPT !.listing_date = history_map[k[1]].listing_date,
                                    !.sales_months_count = history_map[k[1]].sales_months_count,
                                    !.price_min = history_map[k[1]].price_min]
                 ELSE db[k]],
      ret |-> Cardinality(DOMAIN history_map) ]

\* the UPDATE with "WHERE asin = ?" alone
UpdatePriceHistoryOfAsin(db, keyword, asin, price_data) ==
    [ db  |-> [k \in DOMAIN db |->
                 IF k[1] = asin
                 THEN [db[k] EXCEPT !.price_min = price_data.price_min]
                 ELSE db[k]],
      ret |-> TRUE ]

\* price_data: [price_min]; True also when no row matches
update_price_history(db, keyword, asin, price_data) ==
    [ db  |-> [k \in DOMAIN db |->
                 IF k[1] = asin /\ k[2] = keyword
                 THEN [db[k] EXCEPT !.price_min = price_data.price_min]
                 ELSE db[k]],
      ret |-> TRUE ]

get_asins_for_enrichment(db, keyword) == {k[1] : k \in Unfiltered(db, keyword)}

\* the asins get_filtered_asins returns (the rows with filter_status IS NULL)
get_filtered_asins(db, keyword) == {k[1] : k \in Unfiltered(db, keyword)}

----------------------------------------------------------------------------
(* Inputs of the store operations                                          *)

SALES_THRESHOLDS == {-1, 0, 1}      \* --filter-max-sales is any int (main.py:162)
PRICE_THRESHOLDS == {0, 100}
MONTHS == {DefaultMonths}

Item(asin, is_sponsored, category_sub, price, sales_volume, message) ==
    [ asin |-> asin, is_sponsored |-> is_sponsored, category_sub |-> category_sub,
      price |-> price, sales_volume |-> sales_volume,
      purchase_history_message |-> message ]

\* what the search collaborator may deliver for one asin
ItemsOf(a) ==
    { Item(Val(a), Val(TRUE), Val("X"), Val(200), Val(2), Null),
      Item(Val(a), Null, Val("Y"), Val(100), Null, Val(1)) }

\* items without a usable identifier
Malformed ==
    { Item(Null, Val(TRUE), Val("X"), Val(200), Val(2), Null),
      Item(Val(""), Null, Val("Y"), Val(100), Null, Val(1)) }

ITEMS(keyword) ==
    IF keyword = "k1"
    THEN ItemsOf("a1") \cup {Item(Val("a2"), Val(FALSE), Val("X"), Val(200), Val(2), Null)}
            \cup Malformed
    ELSE {Item(Val("a1"), Val(TRUE), Val("X"), Val(200), Val(2), Null)}

Batches(keyword) ==
    UNION {[1..n -> ITEMS(keyword)] : n \in 1..MaxBatch}

History(listing_date, sales_months_count, price_min) ==
    [ listing_date |-> listing_date, sales_months_count |-> sales_months_count,
      price_min |-> price_min ]

OldDay == CutoffDate(DefaultMonths) - 1
NewDay == CutoffDate(DefaultMonths)

\* what the enrichment step may hand to batch_update_sellerspirit_history
HISTORY_MAPS ==
    { [a \in {"a1"} |-> History(Null, Null, Null)],
      [a \in {"a1"} |-> History(Val(OldDay), Val(DefaultMonths + 1), Val(50))] }

\* what the category fill may hand to batch_update_asin_categories
CATEGORY_MAPS == { [a \in {"a2", "a3"} |-> Val("X")] }

----------------------------------------------------------------------------
(* The store operations as actions                                         *)

NoRun == <<>>

StoreStep(name, keyword, arg, r) ==
    /\ pc = "idle"
    /\ asins' = r.db
    /\ ret' = r.ret
    /\ op' = [name |-> name, keyword |-> keyword, arg |-> arg]
    /\ UNCHANGED <<ss_data, pc, runs, input, results, stats, report, cache, now, fetchers, ai, history_cache>>

\* the keys a save_asins call writes, and the item it writes last for an asin
SavedKeys(items, keyword) ==
    {<<The(items[i].asin), keyword>> :
        i \in {j \in DOMAIN items : ~(IsNull(items[j].asin) \/ items[j].asin = Val(""))}}

LastItem(items, a) ==
    items[CHOOSE i \in DOMAIN items :
            /\ items[i].asin = Val(a)
            /\ \A j \in DOMAIN items : items[j].asin = Val(a) => j <= i]

SaveAsins ==
    \E keyword \in KEYWORDS :
        \E items \in Batches(keyword) :
            /\ StoreStep("save_asins", keyword, Len(items),
                         save_asins(asins, items, keyword, "keyword_search", keyword))
            /\ saved' = [k \in DOMAIN saved \cup SavedKeys(items, keyword) |->
                            IF k \in SavedKeys(items, keyword)
                            THEN LastItem(items, k[1]) ELSE saved[k]]

ResetFilterStatus ==
    \E keyword \in KEYWORDS :
        /\ StoreStep("reset_filter_status", keyword, <<>>,
                     reset_filter_status(asins, keyword))
        /\ UNCHANGED saved

FilterSponsoredAsins ==
    \E keyword \in KEYWORDS :
        /\ StoreStep("filter_sponsored_asins", keyword, <<>>,
                     filter_sponsored_asins(asins, keyword))
        /\ UNCHANGED saved

FilterByTopCategory ==
    \E keyword \in KEYWORDS :
        /\ StoreStep("filter_by_top_category", keyword, <<>>,
                     filter_by_top_category(asins, keyword))
        /\ UNCHANGED saved

FilterLowSalesAsins(thresholds) ==
    \E keyword \in KEYWORDS, max_sales \in thresholds :
        /\ StoreStep("filter_low_sales_asins", keyword, max_sales,
                     filter_low_sales_asins(asins, keyword, max_sales))
        /\ UNCHANGED saved

FilterByPrice(thresholds) ==
    \E keyword \in KEYWORDS, max_price \in thresholds :
        /\ StoreStep("filter_by_price", keyword, max_price,
                     db_filter_by_price(asins, keyword, max_price))
        /\ UNCHANGED saved

FilterByListingDate ==
    \E keyword \in KEYWORDS, months \in MONTHS :
        /\ StoreStep("filter_by_listing_date", keyword, months,
                     db_filter_by_listing_date(asins, keyword, months))
        /\ UNCHANGED saved

BatchUpdateAsinCategories ==
    \E keyword \in KEYWORDS, category_map \in CATEGORY_MAPS :
        /\ StoreStep("batch_update_asin_categories", keyword, category_map,
                     batch_update_asin_categories(asins, keyword, category_map))
        /\ UNCHANGED saved

BatchUpdateSellerspiritHistory ==
    \E keyword \in KEYWORDS, history_map \in HISTORY_MAPS :
        /\ StoreStep("batch_update_sellerspirit_history", keyword, history_map,
                     batch_update_sellerspirit_history(asins, keyword, history_map))
        /\ UNCHANGED saved

UpdatePriceHistory ==
    \E keyword \in KEYWORDS, asin \in {"a1", "a3"}, price_min \in {Null, Val(50)} :
        /\ StoreStep("update_price_history", keyword, asin,
                     update_price_history(asins, keyword, asin, [price_min |-> price_min]))
        /\ UNCHANGED saved

GetFilteredAsins ==
    \E keyword \in KEYWORDS :
        /\ StoreStep("get_filtered_asins", keyword, <<>>,
                     [db |-> asins, ret |-> get_filtered_asins(asins, keyword)])
        /\ UNCHANGED saved

FilterStageNames ==
    { "filter_sponsored_asins", "filter_by_top_category", "filter_low_sales_asins",
      "filter_by_price", "filter_by_listing_date" }

\* the state after BatchScraperDB.__init__ on a new file
Init ==
    /\ asins = <<>>
    /\ ss_data = [k \in KEYWORDS |-> <<>>]
    /\ op = [name |-> "init", keyword |-> "", arg |-> <<>>]
    /\ ret = 0
    /\ pc = "idle"
    /\ runs = 0
    /\ input = NoRun
    /\ results = <<>>
    /\ stats = <<>>
    /\ report = <<>>
    /\ saved = <<>>
    /\ cache = <<>>
    /\ now = 0
    /\ fetchers = <<>>
    /\ ai = <<>>
    /\ history_cache = <<>>

Next ==
    \/ SaveAsins
    \/ ResetFilterStatus
    \/ FilterSponsoredAsins
    \/ FilterByTopCategory
    \/ FilterLowSalesAsins({1})
    \/ FilterByPrice({100})
    \/ FilterByListingDate
    \/ BatchUpdateAsinCategories
    \/ BatchUpdateSellerspiritHistory
    \/ GetFilteredAsins

Spec == Init /\ [][Next]_vars

----------------------------------------------------------------------------
(* The filter stages from any table content.  The initial tables are the   *)
(* ones save_asins followed by batch_update_sellerspirit_history can       *)
(* build: any descriptive and history columns, no tag yet.  Tagged rows    *)
(* arise from the stages themselves.                                       *)

Row(keyword, is_sponsored, category_sub, price, sales_volume, listing_date, sales_months_count) ==
    [ source_type        |-> "keyword_search",
      source_value       |-> keyword,
      category_sub       |-> category_sub,
      price              |-> price,
      sales_volume       |-> Val(sales_volume),
      is_sponsored       |-> is_sponsored,
      filter_status      |-> Null,
      listing_date       |-> listing_date,
      sales_months_count |-> sales_months_count,
      price_min          |-> Null,
      created_at         |-> Today ]

CategoryRows ==
    { Row("k1", sp, cat, Null, 0, Null, Null) :
        sp \in {0, 1}, cat \in {Null, Val(""), Val("X"), Val("Y")} }

SalesRows ==
    { Row("k1", 0, Val("X"), Null, sales, Null, Null) : sales \in {0, 1, 2} }

PriceRows ==
    { Row("k1", 0, Val("X"), price, 0, Null, Null) :
        price \in {Null, Val(0), Val(100), Val(200)} }

ListingRows ==
    { Row("k1", 0, Val("X"), Null, 0, ld, smc) :
        ld \in {Null, Val(OldDay), Val(NewDay)},
        smc \in {Null, Val(DefaultMonths), Val(DefaultMonths + 1)} }

\* rows that fail several criteria at once
MixedRows ==
    { Row("k1", 1, Val("X"), Val(200), 2, Val(OldDay), Val(DefaultMonths + 1)),
      Row("k1", 0, Val("Y"), Val(100), 2, Val(NewDay), Val(DefaultMonths + 1)),
      Row("k1", 0, Val("X"), Null, 0, Null, Null),
      Row("k1", 1, Null, Val(0), 1, Val(OldDay), Null),
      Row("k1", 0, Val("Y"), Val(200), 1, Null, Val(DefaultMonths)) }

\* every table of keyword k1 with rows of F for zero to three asins
TablesOver(F) ==
    UNION { { [k \in {<<a, "k1">> : a \in D} |-> f[k[1]]] : f \in [D -> F] } :
            D \in {{}, {"a1"}, {"a1", "a2"}, ASINS} }

OtherKeywordRow == Row("k2", 1, Val("Y"), Val(200), 2, Val(OldDay), Null)

WithOtherKeyword(db) ==
    [k \in DOMAIN db \cup {<<"a1", "k2">>} |->
        IF k = <<"a1", "k2">> THEN OtherKeywordRow ELSE db[k]]

FilterTables ==
    TablesOver(CategoryRows) \cup TablesOver(SalesRows) \cup TablesOver(PriceRows)
        \cup TablesOver(ListingRows)
        \cup TablesOver(MixedRows) \cup {WithOtherKeyword(db) : db \in TablesOver(MixedRows)}

InitFilter ==
    /\ asins \in FilterTables
    /\ ss_data = [k \in KEYWORDS |-> <<>>]
    /\ op = [name |-> "init", keyword |-> "", arg |-> <<>>]
    /\ ret = 0
    /\ pc = "idle"
    /\ runs = 0
    /\ input = NoRun
    /\ results = <<>>
    /\ stats = <<>>
    /\ report = <<>>
    /\ saved = <<>>
    /\ cache = <<>>
    /\ now = 0
    /\ fetchers = <<>>
    /\ ai = <<>>
    /\ history_cache = <<>>

NextFilter ==
    \/ ResetFilterStatus
    \/ FilterSponsoredAsins
    \/ FilterByTopCategory
    \/ FilterLowSalesAsins(SALES_THRESHOLDS)
    \/ FilterByPrice(PRICE_THRESHOLDS)
    \/ FilterByListingDate

SpecFilter == InitFilter /\ [][NextFilter]_vars

----------------------------------------------------------------------------
(* The five filter stages called once each, in an order the caller picks.  *)
(* run() uses PipelineOrder; the methods are public and take the           *)
(* thresholds as arguments, so any order can be called.                    *)

PipelineOrder ==
    << "filter_sponsored_asins", "filter_by_top_category", "filter_low_sales_asins",
       "filter_by_listing_date", "filter_by_price" >>

StageOrders ==
    { o \in [DOMAIN PipelineOrder -> FilterStageNames] :
        \A i, j \in DOMAIN o : i # j => o[i] # o[j] }


\* one stage call with the thresholds th = [max_sales, max_price, months]
Stage(db, keyword, name, th) ==
    CASE name = "filter_sponsored_asins" -> filter_sponsored_asins(db, keyword)
      [] name = "filter_by_top_category" -> filter_by_top_category(db, keyword)
      [] name = "filter_low_sales_asins" -> filter_low_sales_asins(db, keyword, th.max_sales)
      [] name = "filter_by_listing_date" -> db_filter_by_listing_date(db, keyword, th.months)
      [] name = "filter_by_price" -> db_filter_by_price(db, keyword, th.max_price)

StageArg(name, th) ==
    CASE name = "filter_low_sales_asins" -> th.max_sales
      [] name = "filter_by_listing_date" -> th.months
      [] name = "filter_by_price" -> th.max_price
      [] OTHER -> <<>>

RECURSIVE RunStages(_, _, _, _)
RunStages(db, keyword, order, th) ==
    IF order = <<>> THEN db
    ELSE RunStages(Stage(db, keyword, Head(order), th).db, keyword, Tail(order), th)

OrderRows ==
    { Row("k1", 0, Val("X"), Val(100), 2, Null, Null),
      Row("k1", 0, Val("Y"), Val(100), 0, Null, Null),
      Row("k1", 1, Val("X"), Val(300), 0, Val(OldDay), Null),
      Row("k1", 0, Val("X"), Val(200), 0, Null, Val(DefaultMonths + 1)),
      Row("k1", 0, Null, Null, 0, Null, Null) }

InitOrder ==
    /\ asins \in TablesOver(OrderRows)
    /\ input \in { [ keyword |-> "k1", order |-> o, store |-> asins,
                     max_sales |-> 1, max_price |-> 100, months |-> DefaultMonths ] :
                   o \in StageOrders }
    /\ ss_data = [k \in KEYWORDS |-> <<>>]
    /\ op = [name |-> "init", keyword |-> "", arg |-> <<>>]
    /\ ret = 0
    /\ pc = "stages"
    /\ runs = 0
    /\ results = <<>>
    /\ stats = <<>>
    /\ report = <<>>
    /\ saved = <<>>
    /\ cache = <<>>
    /\ now = 0
    /\ fetchers = <<>>
    /\ ai = <<>>
    /\ history_cache = <<>>

\* the next stage of the caller's order; stats lists the stages called
ApplyStage ==
    /\ pc = "stages"
    /\ Len(stats) < Len(input.order)
    /\ LET name == input.order[Len(stats) + 1]
           r == Stage(asins, input.keyword, name, input)
       IN /\ asins' = r.db
          /\ ret' = r.ret
          /\ op' = [name |-> name, keyword |-> input.keyword, arg |-> StageArg(name, input)]
          /\ stats' = Append(stats, name)
    /\ UNCHANGED <<ss_data, pc, runs, input, results, report, saved, cache, now, fetchers, ai, history_cache>>

NextOrder == ApplyStage

SpecOrder == InitOrder /\ [][NextOrder]_vars

----------------------------------------------------------------------------
(* scraper.py: BatchScraper.run, called with --top-categories 0,           *)
(* --no-sellerspirit and --no-ai-filter, without --round3, the hook module *)
(* importable and no Apify token: steps 3 and 4 are skipped and every      *)
(* category and history answer comes from the hook.  All runs happen on    *)
(* the day Today.                                                          *)

MaxRuns == 2

\* truthiness of a category_sub value
HasCategory(x) == ~IsNull(x) /\ x # Val("")

Merge(f, g) ==
    [x \in DOMAIN f \cup DOMAIN g |-> IF x \in DOMAIN g THEN g[x] ELSE f[x]]

RECURSIVE SeqOf(_)
SeqOf(S) ==
    IF S = {} THEN <<>>
    ELSE LET x == CHOOSE y \in S : TRUE IN <<x>> \o SeqOf(S \ {x})

TodayKeys(db, keyword) ==
    {k \in Keys(db, keyword) :
        db[k].source_type = "keyword_search" /\ db[k].created_at = Today}

has_today_data(db, keyword) == TodayKeys(db, keyword) # {}

\* the dictionaries get_today_asins builds from the rows: is_sponsored and
\* purchase_history_message are not among their keys
get_today_asins(db, keyword) ==
    SeqOf({ Item(Val(k[1]), Null, db[k].category_sub, db[k].price,
                 db[k].sales_volume, Null) : k \in TodayKeys(db, keyword) })

\* raises: search_keyword_with_smart_stop raises instead of answering
\* searched: the queries handed to the search collaborator; tasks: the
\* task_type of the rows create_task wrote
scrape_keyword(db, keyword, answer, raises) ==
    IF has_today_data(db, keyword)
    THEN [ success |-> TRUE, db |-> db, search_results |-> get_today_asins(db, keyword),
           saved_count |-> Len(get_today_asins(db, keyword)), from_cache |-> TRUE,
           searched |-> <<>>, tasks |-> <<>> ]
    ELSE IF raises
    THEN [ success |-> FALSE, db |-> db, search_results |-> <<>>, saved_count |-> 0,
           from_cache |-> FALSE, searched |-> <<keyword>>, tasks |-> <<"initial">> ]
    ELSE [ success |-> TRUE,
           db |-> save_asins(db, answer, keyword, "keyword_search", keyword).db,
           search_results |-> answer,
           saved_count |-> save_asins(db, answer, keyword, "keyword_search", keyword).ret,
           from_cache |-> FALSE, searched |-> <<keyword>>, tasks |-> <<"initial">> ]

\* one entry of the hook's getData answer: the category label, the
\* "available" day and the number of trend months with sales
HookItem(category_sub, available, months) ==
    [ category_sub |-> category_sub, available |-> available, months |-> months ]

\* category_map of the hook for the asins asked: entries with a label only
HookCategories(hook, asked) ==
    [a \in {x \in asked \cap DOMAIN hook : HasCategory(hook[x].category_sub)} |->
        hook[a].category_sub]

\* ss: the sellerspirit_data table, per keyword the category saved per asin
fetch_sellerspirit_hook_data(ss, asked, keyword, hook) ==
    LET cached_data == ss[keyword]
        asins_to_fetch == asked \ DOMAIN cached_data
        category_map == HookCategories(hook, asins_to_fetch)
    IN IF asked = {} THEN [ss |-> ss, map |-> <<>>]
       ELSE IF asins_to_fetch = {} THEN [ss |-> ss, map |-> cached_data]
       ELSE [ ss  |-> [ss EXCEPT ![keyword] = Merge(cached_data, category_map)],
              map |-> Merge(cached_data, category_map) ]

fetch_sellerspirit_categories(db, ss, keyword, search_results, hook) ==
    LET n == Len(search_results)
        withCat == {i \in 1..n : HasCategory(search_results[i].category_sub)}
        has_category_data == Cardinality(withCat)
        usable == {i \in 1..n : ~(IsNull(search_results[i].asin)
                                     \/ search_results[i].asin = Val(""))}
        updated_count == Cardinality(usable \cap withCat)
        missing_asins == {The(search_results[i].asin) : i \in usable \ withCat}
        h == fetch_sellerspirit_hook_data(ss, missing_asins, keyword, hook)
        hit == {i \in usable \ withCat : The(search_results[i].asin) \in DOMAIN h.map}
        updated == [i \in 1..n |->
                      IF i \in hit
                      THEN [search_results[i] EXCEPT
                               !.category_sub = h.map[The(search_results[i].asin)]]
                      ELSE search_results[i]]
        total_updated == updated_count + Cardinality(hit)
    IN IF has_category_data * 100 > n * HalfPct
       THEN [ db |-> db, ss |-> ss, search_results |-> search_results,
              updated_count |-> has_category_data ]
       ELSE [ db |-> IF total_updated > 0
                     THEN save_asins(db, updated, keyword, "keyword_search", keyword).db
                     ELSE db,
              ss |-> h.ss, search_results |-> updated,
              updated_count |-> total_updated ]

fill_missing_categories(db, keyword, hook) ==
    LET total == Cardinality(Keys(db, keyword))
        has_category == Cardinality({k \in Keys(db, keyword) :
                                        HasCategory(db[k].category_sub)})
        missing_asins == {k[1] : k \in {x \in Keys(db, keyword) :
                                           ~HasCategory(db[x].category_sub)}}
        category_map == HookCategories(hook, missing_asins)
    IN IF total > 0 /\ has_category * 100 >= MinCoveragePct * total THEN db
       ELSE IF DOMAIN category_map = {} THEN db
       ELSE batch_update_asin_categories(db, keyword, category_map).db

filter_by_category(db, keyword, hook) ==
    filter_by_top_category(fill_missing_categories(db, keyword, hook), keyword)

\* get_asins_needing_history_fetch: the asins without a row of the
\* sellerspirit_history_cache table updated in the last cache_days days
get_cached_sellerspirit_history(hc, asin_set, cache_days) ==
    {a \in asin_set \cap DOMAIN hc : hc[a].updated_at >= Today - cache_days}

get_asins_needing_history_fetch(hc, asin_set, cache_days) ==
    asin_set \ get_cached_sellerspirit_history(hc, asin_set, cache_days)

\* INSERT OR REPLACE of one row per asin, stamped with the day
save_sellerspirit_history_cache(hc, history_map) ==
    [a \in DOMAIN hc \cup DOMAIN history_map |->
        IF a \in DOMAIN history_map THEN [updated_at |-> Today] ELSE hc[a]]

\* how the hook stands during a run: it answers, the module could not be
\* imported, login() returns no token, or getData() raises
HOOK_STATUS == {"ok", "unavailable", "login_failed", "raises"}

\* how the price provider stands: is_apify_available() is false, or the
\* fetcher raises
APIFY_STATUS == {"unavailable", "raises"}

\* the items of a hook that answers; no items from one that does not
HookOf(in) == IF in.hook_status = "ok" THEN in.hook ELSE <<>>

\* one external call: whether it raised, the asins it asked the provider
\* for, and the entries it obtained
Outcome(raised, asked, items) == [raised |-> raised, asked |-> asked, items |-> items]

\* login() and the getData() calls over the chunks of asins.  listing_date
\* from "available", sales_months_count from the trend months with sales
\* (None when there is none), no price history
hook_history(status, hook, asin_set) ==
    IF status = "login_failed" THEN Outcome(FALSE, {}, <<>>)
    ELSE IF status = "raises" THEN Outcome(TRUE, asin_set, <<>>)
    ELSE Outcome(FALSE, asin_set,
                 [a \in asin_set \cap DOMAIN hook |->
                     History(hook[a].available,
                             IF hook[a].months > 0 THEN Val(hook[a].months) ELSE Null,
                             Null)])

\* ApifyPriceFetcher() and get_multiple_price_history()
price_history(status) == Outcome(status = "raises", {}, <<>>)

\* the try blocks of the stage: "except Exception as e" logs the exception
\* and the stage goes on; without one the exception leaves the stage
LetItEscape(call) == call
TryExcept(call) == [call EXCEPT !.raised = FALSE]

enrich_with_sellerspirit_history(db, keyword, hook, hook_status, apify_status) ==
    LET asin_set == get_asins_for_enrichment(db, keyword)
        h == IF hook_status = "unavailable"
             THEN Outcome(FALSE, {}, [a \in asin_set |-> History(Null, Null, Null)])
             ELSE TryExcept(hook_history(hook_status, hook, asin_set))
        p == IF apify_status = "unavailable" THEN Outcome(FALSE, {}, <<>>)
             ELSE TryExcept(price_history(apify_status))
        history_map == h.items
        result(d, updated, raised) ==
            [ db |-> d, ret |-> updated, total_asins |-> Cardinality(asin_set),
              asked |-> IF asin_set = {} THEN {} ELSE h.asked, raised |-> raised ]
    IN IF asin_set = {} THEN result(db, 0, FALSE)
       ELSE IF h.raised \/ p.raised THEN result(db, 0, TRUE)
       ELSE IF DOMAIN history_map = {} THEN result(db, 0, FALSE)
       ELSE LET r == batch_update_sellerspirit_history(db, keyword, history_map)
            IN result(r.db, r.ret, FALSE)

\* the threshold taken as the larger of the two statistics
FilterByLargerStatistic(db, keyword, avg_price, median_price) ==
    IF IsNull(avg_price) /\ IsNull(median_price)
    THEN [ db |-> db, ret |-> [skipped |-> TRUE, removed |-> 0, kept |-> 0] ]
    ELSE LET max_price ==
                 IF ~IsNull(avg_price) /\ ~IsNull(median_price)
                 THEN (IF The(avg_price) >= The(median_price)
                       THEN The(avg_price) ELSE The(median_price))
                 ELSE IF ~IsNull(avg_price) THEN The(avg_price)
                 ELSE The(median_price)
             r == db_filter_by_price(db, keyword, max_price)
         IN [ db |-> r.db,
              ret |-> [skipped |-> FALSE, removed |-> r.ret.removed, kept |-> r.ret.kept] ]

filter_by_price(db, keyword, avg_price, median_price) ==
    IF IsNull(avg_price) /\ IsNull(median_price)
    THEN [ db |-> db, ret |-> [skipped |-> TRUE, removed |-> 0, kept |-> 0] ]
    ELSE LET max_price ==
                 IF ~IsNull(avg_price) /\ ~IsNull(median_price)
                 THEN (IF The(avg_price) <= The(median_price)
                       THEN The(avg_price) ELSE The(median_price))
                 ELSE IF ~IsNull(avg_price) THEN The(avg_price)
                 ELSE The(median_price)
             r == db_filter_by_price(db, keyword, max_price)
         IN [ db |-> r.db,
              ret |-> [skipped |-> FALSE, removed |-> r.ret.removed, kept |-> r.ret.kept] ]

\* what the search collaborator answers for one asin
SearchItems(a) ==
    { Item(Val(a), Val(TRUE), Null, Val(200), Val(2), Null),
      Item(Val(a), Null, Null, Val(100), Null, Val(1)),
      Item(Val(a), Val(FALSE), Val("X"), Val(100), Val(0), Null),
      Item(Val(a), Val(FALSE), Val("X"), Val(200), Val(0), Null) }

AsinSeq == << "a1", "a2", "a3" >>

SearchAnswers ==
    UNION { { r \in [1..n -> UNION {SearchItems(a) : a \in ASINS}] :
                \A i \in 1..n : r[i].asin = Val(AsinSeq[i]) } : n \in 0..Len(AsinSeq) }

HookAnswers ==
    { [a \in {} |-> HookItem(Null, Null, 0)],
      [a \in {"a1"} |-> HookItem(Val("X"), Val(OldDay), DefaultMonths + 1)],
      [a \in {"a1", "a2"} |-> IF a = "a1" THEN HookItem(Val("X"), Null, 0)
                              ELSE HookItem(Val("Y"), Val(NewDay), DefaultMonths)],
      [a \in ASINS |-> HookItem(Val("X"), Val(NewDay), 0)] }

\* the collaborators' answers, the same in every run: the search answers,
\* the hook answers, no price provider
RunInputs ==
    [ keyword : {"k1"}, search : SearchAnswers, search_raises : {{FALSE}},
      hook : HookAnswers, hook_status : {"ok"}, apify_status : {"unavailable"},
      max_sales : {1} ]

InitRun ==
    /\ asins = <<>>
    /\ ss_data = [k \in KEYWORDS |-> <<>>]
    /\ op = [name |-> "init", keyword |-> "", arg |-> <<>>]
    /\ ret = 0
    /\ pc = "idle"
    /\ runs = 0
    /\ input \in RunInputs
    /\ results = <<>>
    /\ stats = <<>>
    /\ report = <<>>
    /\ saved = <<>>
    /\ cache = <<>>
    /\ now = 0
    /\ fetchers = <<>>
    /\ ai = <<>>
    /\ history_cache = <<>>

\* the statements of run() after step 1, in program order; in another
\* order the sponsored stage would come ahead of the reset
FilterBeforeReset ==
    << "step1_5", "step2", "step5", "reset", "step6", "step7", "step7_5", "step7_6",
       "step8", "step9" >>
run_steps ==
    << "step1_5", "step2", "reset", "step5", "step6", "step7", "step7_5", "step7_6",
       "step8", "step9" >>

\* the statement after p; run() returns after the last one
Following(p) ==
    LET i == CHOOSE j \in DOMAIN run_steps : run_steps[j] = p
    IN IF i = Len(run_steps) THEN "idle" ELSE run_steps[i + 1]

RunStep(from, to, name, arg, db, r) ==
    /\ pc = from
    /\ pc' = to
    /\ asins' = db
    /\ ret' = r
    /\ op' = [name |-> name, keyword |-> input.keyword, arg |-> arg]
    /\ UNCHANGED <<input, saved, cache, now, fetchers, ai, history_cache>>

StepStat(step, r) == [step |-> step, removed |-> r.removed, kept |-> r.kept]

\* the exit code of the single-keyword process, which is not always zero
ExitZero(result) == 0
main(result) == IF result.success THEN 0 ELSE 1

\* what one run() leaves: its result, the exit code of its process, the
\* step results and the unfiltered asins
RunResult(success, db, st) ==
    [ success |-> success, exit_code |-> main([success |-> success]),
      unfiltered |-> get_filtered_asins(db, input.keyword), stats |-> st ]

\* step 1; run() returns its result when it failed
ScrapeKeyword ==
    /\ runs < MaxRuns
    /\ \E raises \in input.search_raises :
          LET r == scrape_keyword(asins, input.keyword, input.search, raises)
          IN /\ RunStep("idle", IF r.success THEN run_steps[1] ELSE "idle",
                        "scrape_keyword", [success |-> r.success], r.db, r.saved_count)
             /\ results' = r.search_results
             /\ report' = IF r.success THEN report
                          ELSE Append(report, RunResult(FALSE, r.db, <<>>))
    /\ runs' = runs + 1
    /\ stats' = <<>>
    /\ UNCHANGED ss_data

\* step 1.5
FetchSellerspiritCategories ==
    /\ LET r == fetch_sellerspirit_categories(asins, ss_data, input.keyword, results,
                                              HookOf(input))
       IN /\ RunStep("step1_5", Following("step1_5"), "fetch_sellerspirit_categories",
                     <<>>, r.db, r.updated_count)
          /\ results' = r.search_results
          /\ ss_data' = r.ss
    /\ UNCHANGED <<runs, stats, report>>

\* step 2; steps 3 and 4 are skipped.  The statistics go to category_stats.
AnalyzeCategories ==
    /\ RunStep("step2", Following("step2"), "analyze_categories", <<>>, asins, 0)
    /\ UNCHANGED <<ss_data, runs, results, stats, report>>

RunReset ==
    /\ LET r == reset_filter_status(asins, input.keyword)
       IN RunStep("reset", Following("reset"), "reset_filter_status", <<>>, r.db, r.ret)
    /\ UNCHANGED <<ss_data, runs, results, stats, report>>

\* step 5
FilterBySponsored ==
    /\ LET r == filter_sponsored_asins(asins, input.keyword)
       IN /\ RunStep("step5", Following("step5"), "filter_sponsored_asins", <<>>,
                     r.db, r.ret)
          /\ stats' = Append(stats, StepStat("5", r.ret))
    /\ UNCHANGED <<ss_data, runs, results, report>>

\* step 6
FilterByCategory ==
    /\ LET r == filter_by_category(asins, input.keyword, HookOf(input))
       IN /\ RunStep("step6", Following("step6"), "filter_by_top_category", <<>>,
                     r.db, r.ret)
          /\ stats' = Append(stats, [ step |-> "6", removed |-> r.ret.removed,
                                      kept |-> r.ret.kept,
                                      avg_price |-> r.ret.avg_price,
                                      median_price |-> r.ret.median_price ])
    /\ UNCHANGED <<ss_data, runs, results, report>>

\* step 7
FilterBySales ==
    /\ LET r == filter_low_sales_asins(asins, input.keyword, input.max_sales)
       IN /\ RunStep("step7", Following("step7"), "filter_low_sales_asins",
                     input.max_sales, r.db, r.ret)
          /\ stats' = Append(stats, StepStat("7", r.ret))
    /\ UNCHANGED <<ss_data, runs, results, report>>

\* step 7.5; op.arg is the set of asins the hook was asked for.  An
\* exception that leaves the stage leaves run() as well.
EnrichWithSellerspiritHistory ==
    /\ LET r == enrich_with_sellerspirit_history(asins, input.keyword, HookOf(input),
                                                 input.hook_status, input.apify_status)
       IN /\ RunStep("step7_5", IF r.raised THEN "idle" ELSE Following("step7_5"),
                     "enrich_with_sellerspirit_history", r.asked, r.db, r.ret)
          /\ stats' = Append(stats, [ step |-> "7.5", removed |-> 0, kept |-> r.ret,
                                      total_asins |-> r.total_asins ])
          /\ report' = IF r.raised THEN Append(report, RunResult(FALSE, r.db, stats'))
                       ELSE report
    /\ UNCHANGED <<ss_data, runs, results>>

\* step 7.6
RunFilterByListingDate ==
    /\ LET r == db_filter_by_listing_date(asins, input.keyword, DefaultMonths)
       IN /\ RunStep("step7_6", Following("step7_6"), "filter_by_listing_date",
                     DefaultMonths, r.db, r.ret)
          /\ stats' = Append(stats, StepStat("7.6", r.ret))
    /\ UNCHANGED <<ss_data, runs, results, report>>

\* step 8, with the statistics step 6 returned
RunFilterByPrice ==
    /\ LET step6_result == stats[CHOOSE i \in DOMAIN stats : stats[i].step = "6"]
           r == filter_by_price(asins, input.keyword, step6_result.avg_price,
                                step6_result.median_price)
       IN /\ RunStep("step8", Following("step8"), "filter_by_price", <<>>, r.db, r.ret)
          /\ stats' = Append(stats, StepStat("8", r.ret))
    /\ UNCHANGED <<ss_data, runs, results, report>>

\* step 9 and the end of run(): report keeps what each run left
ExportToCsv ==
    /\ RunStep("step9", Following("step9"), "export_to_csv", <<>>, asins,
               Cardinality(get_filtered_asins(asins, input.keyword)))
    /\ report' = Append(report, RunResult(TRUE, asins, stats))
    /\ UNCHANGED <<ss_data, runs, results, stats>>

NextRun ==
    \/ ScrapeKeyword
    \/ FetchSellerspiritCategories
    \/ AnalyzeCategories
    \/ RunReset
    \/ FilterBySponsored
    \/ FilterByCategory
    \/ FilterBySales
    \/ EnrichWithSellerspiritHistory
    \/ RunFilterByListingDate
    \/ RunFilterByPrice
    \/ ExportToCsv

SpecRun == InitRun /\ [][NextRun]_vars

----------------------------------------------------------------------------
(* run() with collaborators that fail: the search may raise in any run,    *)
(* the hook and the price provider may be out of use, the table may hold   *)
(* what a run of the day before left, and the sales-history cache of the   *)
(* store may be filled between runs.                                       *)

\* what a run of the day before left: a1 tagged by the sponsored stage, a2
\* enriched and untagged
EarlierTable ==
    [k \in {<<"a1", "k1">>, <<"a2", "k1">>} |->
        IF k[1] = "a1"
        THEN [Row("k1", 1, Val("X"), Val(200), 2, Null, Null) EXCEPT
                 !.filter_status = Val(TagSponsored), !.created_at = Today - 1]
        ELSE [Row("k1", 0, Val("X"), Val(100), 0, Val(NewDay), Null) EXCEPT
                 !.created_at = Today - 1]]

DefaultCacheDays == 20

\* the history_map arguments of save_sellerspirit_history_cache
HISTORY_CACHE_MAPS ==
    { [a \in D |-> History(Null, Null, Null)] : D \in {{"a1"}, {"a2", "a3"}} }

PipelineInputs ==
    { in \in [ keyword : {"k1"}, search : SearchAnswers, search_raises : {BOOLEAN},
               hook : HookAnswers, hook_status : HOOK_STATUS,
               apify_status : APIFY_STATUS, max_sales : {1} ] :
        in.hook_status # "ok" => DOMAIN in.hook = {} }

InitPipeline ==
    /\ asins \in {<<>>, EarlierTable}
    /\ ss_data = [k \in KEYWORDS |-> <<>>]
    /\ op = [name |-> "init", keyword |-> "", arg |-> <<>>]
    /\ ret = 0
    /\ pc = "idle"
    /\ runs = 0
    /\ input \in PipelineInputs
    /\ results = <<>>
    /\ stats = <<>>
    /\ report = <<>>
    /\ saved = <<>>
    /\ cache = <<>>
    /\ now = 0
    /\ fetchers = <<>>
    /\ ai = <<>>
    /\ history_cache = <<>>

SaveSellerspiritHistoryCache ==
    /\ pc = "idle"
    /\ \E history_map \in HISTORY_CACHE_MAPS :
          /\ history_cache' = save_sellerspirit_history_cache(history_cache, history_map)
          /\ op' = [name |-> "save_sellerspirit_history_cache", keyword |-> "",
                    arg |-> DOMAIN history_map]
          /\ ret' = Cardinality(DOMAIN history_map)
    /\ UNCHANGED <<asins, ss_data, pc, runs, input, results, stats, report, saved,
                   cache, now, fetchers, ai>>

NextPipeline ==
    \/ ScrapeKeyword
    \/ FetchSellerspiritCategories
    \/ AnalyzeCategories
    \/ RunReset
    \/ FilterBySponsored
    \/ FilterByCategory
    \/ FilterBySales
    \/ EnrichWithSellerspiritHistory
    \/ RunFilterByListingDate
    \/ RunFilterByPrice
    \/ ExportToCsv
    \/ SaveSellerspiritHistoryCache

SpecPipeline == InitPipeline /\ [][NextPipeline]_vars

----------------------------------------------------------------------------
(* Properties of the record store                                          *)

StageTags(name) ==
    IF name = "filter_sponsored_asins" THEN {TagSponsored}
    ELSE IF name = "filter_by_top_category" THEN {TagCategory}
    ELSE IF name = "filter_low_sales_asins" THEN {TagSales}
    ELSE IF name = "filter_by_price" THEN {TagPrice}
    ELSE {TagListingDate, TagSalesMonths}

Tagged(db, k) == ~IsNull(db[k].filter_status)

\* C1: first match wins.  A filter stage leaves every tagged row's
\* filter_status as it is, and an untagged row either stays untagged or
\* receives a tag of the stage that ran.
C1_FirstMatchWins ==
    [][ op'.name \in FilterStageNames =>
          \A k \in DOMAIN asins :
              IF Tagged(asins, k)
              THEN asins'[k].filter_status = asins[k].filter_status
              ELSE \/ IsNull(asins'[k].filter_status)
                   \/ \E t \in StageTags(op'.name) : asins'[k].filter_status = Val(t) ]_vars

\* a sponsored row that also exceeds the sales threshold still reads
\* sponsored after the sales stage has run
C1_Witness ==
    /\ op.name = "filter_low_sales_asins"
    /\ \E k \in Keys(asins, op.keyword) :
          /\ asins[k].filter_status = Val(TagSponsored)
          /\ SqlGt(asins[k].sales_volume, op.arg)

\* C2 (as claimed): filter_status of a tagged row is left as it was by every
\* operation but reset_filter_status, save_asins of the same key included.
C2_RediscoveryKeepsTag ==
    [][ op'.name # "reset_filter_status" =>
          \A k \in DOMAIN asins :
              Tagged(asins, k) =>
                  /\ k \in DOMAIN asins'
                  /\ asins'[k].filter_status = asins[k].filter_status ]_vars

\* C5: idempotent upsert.  The table holds exactly the keys ever saved with
\* a non-empty identifier, and each row carries the columns save_asins
\* derives from the item saved last for its key.
C5_IdempotentUpsert ==
    /\ DOMAIN asins = DOMAIN saved
    /\ \A k \in DOMAIN asins :
          /\ asins[k].price = saved[k].price
          /\ asins[k].is_sponsored = (IF saved[k].is_sponsored = Val(TRUE) THEN 1 ELSE 0)
          /\ asins[k].sales_volume =
                (IF saved[k].sales_volume # Null THEN saved[k].sales_volume
                 ELSE IF saved[k].purchase_history_message = Null THEN Val(0)
                 ELSE saved[k].purchase_history_message)

\* a batch of two items, one of them without identifier, saved over a table
\* that already held the other one's key
C5_Witness ==
    /\ op.name = "save_asins"
    /\ op.arg = 2
    /\ ret = 1
    /\ \E k \in DOMAIN asins :
          /\ asins[k].price = Val(100)
          /\ asins[k].created_at = Today
          /\ saved[k].is_sponsored = Null
    /\ Cardinality(DOMAIN asins) = 3

\* C6: reset_filter_status clears every tag of the keyword, returns the
\* number of rows that carried one, and leaves get_asin_count equal to the
\* number of rows of the keyword.
C6_Reset ==
    [][ op'.name = "reset_filter_status" =>
          /\ \A k \in Keys(asins', op'.keyword) : IsNull(asins'[k].filter_status)
          /\ ret' = Cardinality({k \in Keys(asins, op'.keyword) : Tagged(asins, k)})
          /\ get_asin_count(asins', op'.keyword, FALSE)
                = Cardinality(Keys(asins', op'.keyword))
          /\ Keys(asins', op'.keyword) = Keys(asins, op'.keyword) ]_vars

\* a reset that found one tagged and one untagged row
C6_Witness ==
    /\ op.name = "reset_filter_status"
    /\ ret = 1
    /\ Cardinality(Keys(asins, op.keyword)) = 2

C8_CategoryMajority ==
    [][ op'.name = "filter_by_top_category" =>
          LET U == Unfiltered(asins, op'.keyword)
              withCat == {k \in U : asins[k].category_sub \notin {Null, Val("")}}
              size(c) == Cardinality({k \in U : asins[k].category_sub = c})
          IN /\ ret'.total = Cardinality(U)
             /\ ret'.kept + ret'.removed = ret'.total
             /\ DOMAIN asins' = DOMAIN asins
             /\ IF withCat = {}
                THEN /\ asins' = asins
                     /\ ret'.removed = 0
                     /\ ret'.kept = ret'.total
                     /\ ret'.top_category = Null
                ELSE \E top \in {asins[k].category_sub : k \in withCat} :
                        /\ ret'.top_category = top
                        /\ \A k \in withCat : size(top) >= size(asins[k].category_sub)
                        /\ ret'.removed = Cardinality({k \in U : asins[k].category_sub # top})
                        /\ \A k \in DOMAIN asins :
                              asins'[k].filter_status =
                                  IF k \in U /\ asins[k].category_sub # top
                                  THEN Val(TagCategory)
                                  ELSE asins[k].filter_status ]_vars

\* one row kept, a row without sub-category and a row of another
\* sub-category tagged
C8_Witness ==
    /\ op.name = "filter_by_top_category"
    /\ ret.kept = 1
    /\ ret.removed = 2
    /\ \E k \in Keys(asins, op.keyword) :
          asins[k].filter_status = Val(TagCategory) /\ IsNull(asins[k].category_sub)
    /\ \E k \in Keys(asins, op.keyword) :
          asins[k].filter_status = Val(TagCategory) /\ ~IsNull(asins[k].category_sub)

\* a value is known when it is neither NULL nor zero
Known(v) == ~IsNull(v) /\ v # Val(0)

\* C9 (as claimed): for every threshold the sales and the price stage tag an
\* unfiltered row iff its value is known and greater than the threshold, so
\* a row whose value is NULL or zero is kept whatever the threshold is.
C9_ThresholdFilters ==
    [][ /\ op'.name = "filter_low_sales_asins" =>
              \A k \in Unfiltered(asins, op'.keyword) :
                  (asins'[k].filter_status = Val(TagSales))
                      <=> (Known(asins[k].sales_volume) /\ SqlGt(asins[k].sales_volume, op'.arg))
        /\ op'.name = "filter_by_price" =>
              \A k \in Unfiltered(asins, op'.keyword) :
                  (asins'[k].filter_status = Val(TagPrice))
                      <=> (Known(asins[k].price) /\ SqlGt(asins[k].price, op'.arg)) ]_vars

\* C10: listing-date filter.  filter_by_listing_date(months) tags an
\* unfiltered row iff its listing_date is known and earlier than
\* now - months * 30 days or its sales_months_count is known and greater
\* than months; the date criterion is applied first, every excluded row is
\* counted in one of removed_by_date and removed_by_sales_months, and
\* kept + removed = total.
C10_ListingDate ==
    [][ op'.name = "filter_by_listing_date" =>
          LET U == Unfiltered(asins, op'.keyword)
              old(k) == \E d \in asins[k].listing_date : d < Today - op'.arg * DaysPerMonth
              long(k) == \E c \in asins[k].sales_months_count : c > op'.arg
          IN /\ DOMAIN asins' = DOMAIN asins
             /\ \A k \in DOMAIN asins :
                   asins'[k].filter_status =
                       IF k \in U /\ old(k) THEN Val(TagListingDate)
                       ELSE IF k \in U /\ long(k) THEN Val(TagSalesMonths)
                       ELSE asins[k].filter_status
             /\ ret'.total = Cardinality(U)
             /\ ret'.removed_by_date = Cardinality({k \in U : old(k)})
             /\ ret'.removed_by_sales_months = Cardinality({k \in U : ~old(k) /\ long(k)})
             /\ ret'.removed = ret'.removed_by_date + ret'.removed_by_sales_months
             /\ ret'.kept + ret'.removed = ret'.total ]_vars

\* one row excluded by date although it also has too many sales months, one
\* excluded by sales months, one kept with sales_months_count = months
C10_Witness ==
    /\ op.name = "filter_by_listing_date"
    /\ ret.removed_by_date = 1
    /\ ret.removed_by_sales_months = 1
    /\ ret.kept = 1
    /\ \E k \in Keys(asins, op.keyword) :
          /\ asins[k].filter_status = Val(TagListingDate)
          /\ SqlGt(asins[k].sales_months_count, op.arg)
    /\ \E k \in Keys(asins, op.keyword) :
          /\ IsNull(asins[k].filter_status)
          /\ asins[k].sales_months_count = Val(op.arg)

\* all stages of the caller's order have been called
AllStagesRun == pc = "stages" /\ Len(stats) = Len(input.order)

\* C4 (as claimed): whatever the order of the stages, the rows left
\* unfiltered after all of them are the rows the pipeline's own order leaves.
C4_OrderIndependent ==
    AllStagesRun =>
        Unfiltered(asins, input.keyword)
            = Unfiltered(RunStages(input.store, input.keyword, PipelineOrder, input),
                         input.keyword)

\* the stages called before the category stage
BeforeCategory(order) ==
    LET pos == CHOOSE i \in DOMAIN order : order[i] = "filter_by_top_category"
    IN {order[i] : i \in 1..(pos - 1)}

\* the order with the same stages before the category stage, both sides of
\* it arranged as in the pipeline
Canon(order) ==
    LET isBefore(n) == n \in BeforeCategory(order)
        isAfter(n) == n \notin BeforeCategory(order) /\ n # "filter_by_top_category"
    IN SelectSeq(PipelineOrder, isBefore) \o << "filter_by_top_category" >>
           \o SelectSeq(PipelineOrder, isAfter)

\* the criteria that read nothing but the row
PassesRowCriteria(row, th) ==
    /\ row.is_sponsored # 1
    /\ ~(\E v \in row.sales_volume : v > th.max_sales)
    /\ ~(\E v \in row.price : v > th.max_price)
    /\ ~(\E d \in row.listing_date : d < Today - th.months * DaysPerMonth)
    /\ ~(\E c \in row.sales_months_count : c > th.months)

\* C4 (amended): the rows left unfiltered depend on the order only through
\* the set of stages called before the category stage.  In every order a
\* row failing a row criterion is excluded, and a row passing all of them
\* is excluded by the category stage or not at all.
C4_OrderUpToCategoryPosition ==
    AllStagesRun =>
        /\ Unfiltered(asins, input.keyword)
              = Unfiltered(RunStages(input.store, input.keyword, Canon(input.order), input),
                           input.keyword)
        /\ \A k \in Keys(asins, input.keyword) :
              IF PassesRowCriteria(input.store[k], input)
              THEN asins[k].filter_status \in {Null, Val(TagCategory)}
              ELSE Tagged(asins, k)

\* an order other than its canonical form whose result differs from the
\* pipeline's: the category stage met another majority
C4_Witness ==
    /\ AllStagesRun
    /\ input.order # Canon(input.order)
    /\ Unfiltered(asins, input.keyword) # {}
    /\ Unfiltered(asins, input.keyword)
          # Unfiltered(RunStages(input.store, input.keyword, PipelineOrder, input),
                       input.keyword)

\* the removed and kept counts of the filter stages of one run
Counts(st) ==
    [i \in DOMAIN st |-> [step |-> st[i].step, removed |-> st[i].removed,
                          kept |-> st[i].kept]]

----------------------------------------------------------------------------
(* database.py: the distribution queries and the export query, called      *)
(* between filter stages on tables that carry the sortable columns.        *)

get_sponsored_distribution(db, keyword) ==
    LET sponsored == Cardinality({k \in Keys(db, keyword) : db[k].is_sponsored = 1})
        organic == Cardinality({k \in Keys(db, keyword) : db[k].is_sponsored = 0})
    IN [ sponsored |-> sponsored, organic |-> organic, total |-> sponsored + organic ]

\* the three counts of get_sales_distribution and get_price_distribution
\* over one column
ThresholdDistribution(db, keyword, column, threshold) ==
    LET U == Unfiltered(db, keyword)
        no_data == Cardinality({k \in U : IsNull(db[k][column]) \/ db[k][column] = Val(0)})
        under_threshold ==
            Cardinality({k \in U : SqlGt(db[k][column], 0)
                                      /\ ~IsNull(db[k][column])
                                      /\ ~SqlGt(db[k][column], threshold)})
        over_threshold == Cardinality({k \in U : SqlGt(db[k][column], threshold)})
    IN [ no_data |-> no_data, under_threshold |-> under_threshold,
         over_threshold |-> over_threshold,
         total |-> no_data + under_threshold + over_threshold ]

get_sales_distribution(db, keyword, max_sales) ==
    ThresholdDistribution(db, keyword, "sales_volume", max_sales)

get_price_distribution(db, keyword, max_price) ==
    ThresholdDistribution(db, keyword, "price", max_price)

\* GROUP BY category_sub ORDER BY cnt DESC: groups of equal count come out
\* in the order TopCategory meets them
RECURSIVE CategoryList(_, _, _)
CategoryList(db, keyword, cats) ==
    IF cats = {} THEN <<>>
    ELSE LET top == CHOOSE c \in cats :
                        \A d \in cats :
                            \/ GroupCount(db, keyword, c) > GroupCount(db, keyword, d)
                            \/ /\ GroupCount(db, keyword, c) = GroupCount(db, keyword, d)
                               /\ CategoryRank[c] >= CategoryRank[d]
         IN <<[category |-> top, count |-> GroupCount(db, keyword, top)]>>
                \o CategoryList(db, keyword, cats \ {top})

get_category_distribution(db, keyword) ==
    CategoryList(db, keyword, Groups(db, keyword))

get_listing_date_distribution(db, keyword, months) ==
    LET U == Unfiltered(db, keyword)
        cutoff_date == CutoffDate(months)
    IN [ no_date_data |-> Cardinality({k \in U : IsNull(db[k].listing_date)}),
         new_by_date |-> Cardinality({k \in U : ~IsNull(db[k].listing_date)
                                        /\ ~SqlLt(db[k].listing_date, cutoff_date)}),
         old_by_date |-> Cardinality({k \in U : SqlLt(db[k].listing_date, cutoff_date)}),
         no_sales_months_data |-> Cardinality({k \in U : IsNull(db[k].sales_months_count)}),
         new_by_sales_months |->
             Cardinality({k \in U : ~IsNull(db[k].sales_months_count)
                                       /\ ~SqlGt(db[k].sales_months_count, months)}),
         old_by_sales_months |->
             Cardinality({k \in U : SqlGt(db[k].sales_months_count, months)}),
         total |-> Cardinality(U),
         cutoff_date |-> cutoff_date ]

valid_order_fields == {"price", "sales_volume", "rating", "reviews_count", "page_rank"}

\* the column the ORDER BY clause names
OrderColumn(order_by) == IF order_by \in valid_order_fields THEN order_by ELSE "price"

\* x may precede y under ASC NULLS LAST
AscNullsLast(x, y) ==
    \/ IsNull(y)
    \/ ~IsNull(x) /\ The(x) <= The(y)

\* the plain ASC of SQLite, where NULL is the least value
AscNullsFirst(x, y) ==
    \/ IsNull(x)
    \/ ~IsNull(y) /\ The(x) <= The(y)

\* the sequences without repetition over the keys S
Orderings(S) ==
    {q \in [1..Cardinality(S) -> S] : \A i, j \in DOMAIN q : q[i] = q[j] => i = j}


\* the ORDER BY without "NULLS LAST"
ExportNullsFirst(db, keyword, order_by) ==
    LET column == OrderColumn(order_by)
    IN { [i \in DOMAIN q |-> q[i][1]] :
           q \in {r \in Orderings(Unfiltered(db, keyword)) :
                     \A i, j \in DOMAIN r :
                         i < j => AscNullsFirst(db[r[i]][column], db[r[j]][column])} }

\* the lists get_filtered_asins may return, as the asins of its rows in
\* order; rows of equal value come in an order SQL leaves open
ExportOrders(db, keyword, order_by) ==
    LET column == OrderColumn(order_by)
    IN { [i \in DOMAIN q |-> q[i][1]] :
           q \in {r \in Orderings(Unfiltered(db, keyword)) :
                     \A i, j \in DOMAIN r :
                         i < j => AscNullsLast(db[r[i]][column], db[r[j]][column])} }

QueryRow(is_sponsored, category_sub, price, sales_volume, listing_date, sales_months_count, rating, reviews_count, page_rank) ==
    [ source_type        |-> "keyword_search",
      source_value       |-> "k1",
      category_sub       |-> category_sub,
      price              |-> price,
      sales_volume       |-> Val(sales_volume),
      is_sponsored       |-> is_sponsored,
      filter_status      |-> Null,
      listing_date       |-> listing_date,
      sales_months_count |-> sales_months_count,
      price_min          |-> Null,
      created_at         |-> Today,
      rating             |-> rating,
      reviews_count      |-> reviews_count,
      page_rank          |-> page_rank ]

\* rating in tenths of a star
QueryRows ==
    { QueryRow(1, Val("X"), Val(200), 2, Val(OldDay), Val(DefaultMonths + 1),
               Val(45), Val(10), Val(1)),
      QueryRow(0, Val("Y"), Val(100), 0, Val(NewDay), Null,
               Null, Val(10), Val(2)),
      QueryRow(0, Val("X"), Null, 1, Null, Val(DefaultMonths),
               Val(40), Null, Null),
      QueryRow(0, Null, Val(0), 0, Null, Null,
               Val(45), Val(3), Val(1)) }

QueryTables == TablesOver(QueryRows)

ORDER_FIELDS == valid_order_fields \cup {"asin", "price DESC"}

InitQuery ==
    /\ asins \in QueryTables
    /\ ss_data = [k \in KEYWORDS |-> <<>>]
    /\ op = [name |-> "init", keyword |-> "", arg |-> <<>>]
    /\ ret = 0
    /\ pc = "idle"
    /\ runs = 0
    /\ input = NoRun
    /\ results = <<>>
    /\ stats = <<>>
    /\ report = <<>>
    /\ saved = <<>>
    /\ cache = <<>>
    /\ now = 0
    /\ fetchers = <<>>
    /\ ai = <<>>
    /\ history_cache = <<>>

Query(name, arg, r) ==
    /\ StoreStep(name, "k1", arg, [db |-> asins, ret |-> r])
    /\ UNCHANGED saved

GetSponsoredDistribution ==
    Query("get_sponsored_distribution", <<>>, get_sponsored_distribution(asins, "k1"))

GetCategoryDistribution ==
    Query("get_category_distribution", <<>>, get_category_distribution(asins, "k1"))

GetSalesDistribution ==
    \E max_sales \in {1} :
        Query("get_sales_distribution", max_sales,
              get_sales_distribution(asins, "k1", max_sales))

GetPriceDistribution ==
    \E max_price \in {100} :
        Query("get_price_distribution", max_price,
              get_price_distribution(asins, "k1", max_price))

GetListingDateDistribution ==
    \E months \in MONTHS :
        Query("get_listing_date_distribution", months,
              get_listing_date_distribution(asins, "k1", months))

GetFilteredAsinsOrdered ==
    \E order_by \in ORDER_FIELDS :
        \E rows \in ExportOrders(asins, "k1", order_by) :
            Query("get_filtered_asins", order_by, rows)

DistributionNames ==
    { "get_sponsored_distribution", "get_category_distribution", "get_sales_distribution",
      "get_price_distribution", "get_listing_date_distribution" }

NextQuery ==
    \/ FilterSponsoredAsins
    \/ FilterByTopCategory
    \/ FilterLowSalesAsins({1})
    \/ FilterByPrice({100})
    \/ FilterByListingDate
    \/ GetSponsoredDistribution
    \/ GetCategoryDistribution
    \/ GetSalesDistribution
    \/ GetPriceDistribution
    \/ GetListingDateDistribution
    \/ GetFilteredAsinsOrdered

SpecQuery == InitQuery /\ [][NextQuery]_vars

----------------------------------------------------------------------------
(* Properties of the reports and queries of the record store               *)

\* C11 (as claimed): when a filter stage returns, its kept is the number of
\* unfiltered records of the keyword (get_asin_count without the filtered
\* ones) and its total is the number of records that were unfiltered before
\* the stage ran.
C11_ReportedCountsMatchStore ==
    [][ op'.name \in FilterStageNames =>
          /\ ret'.kept = get_asin_count(asins', op'.keyword, FALSE)
          /\ ret'.total = Cardinality(Unfiltered(asins, op'.keyword)) ]_vars

\* the rows of the table whose filter_status is NULL
OnlyUnfiltered(db) == [k \in {j \in DOMAIN db : IsNull(db[j].filter_status)} |-> db[k]]

DistributionOf(name, db, keyword, arg) ==
    IF name = "get_sponsored_distribution" THEN get_sponsored_distribution(db, keyword)
    ELSE IF name = "get_category_distribution" THEN get_category_distribution(db, keyword)
    ELSE IF name = "get_sales_distribution" THEN get_sales_distribution(db, keyword, arg)
    ELSE IF name = "get_price_distribution" THEN get_price_distribution(db, keyword, arg)
    ELSE get_listing_date_distribution(db, keyword, arg)

\* C12 (as claimed): every distribution query counts only the records whose
\* filter_status is NULL when it is called: its answer is the one it gives
\* on the table without the tagged records.
C12_DistributionsCountUnfiltered ==
    [][ op'.name \in DistributionNames =>
          ret' = DistributionOf(op'.name, OnlyUnfiltered(asins), op'.keyword, op'.arg) ]_vars

\* C13: export returns exactly the unfiltered records of the keyword, each
\* once, in ascending order of the requested field when it is one of the
\* five sortable fields and of price otherwise, NULL values last.
C13_ExportOrder ==
    [][ op'.name = "get_filtered_asins" /\ op'.arg \in ORDER_FIELDS =>
          LET field == IF op'.arg \in {"price", "sales_volume", "rating",
                                       "reviews_count", "page_rank"}
                       THEN op'.arg ELSE "price"
              at(i) == asins[<<ret'[i], op'.keyword>>][field]
          IN /\ asins' = asins
             /\ {ret'[i] : i \in DOMAIN ret'}
                    = {k[1] : k \in Unfiltered(asins, op'.keyword)}
             /\ Len(ret') = Cardinality(Unfiltered(asins, op'.keyword))
             /\ \A i, j \in DOMAIN ret' :
                    i < j => /\ IsNull(at(i)) => IsNull(at(j))
                             /\ ~IsNull(at(i)) /\ ~IsNull(at(j)) => The(at(i)) <= The(at(j)) ]_vars

\* an export by rating with a tagged row left out and a row without rating
\* after a rated one
C13_Witness ==
    /\ op.name = "get_filtered_asins"
    /\ op.arg = "rating"
    /\ Len(ret) = 2
    /\ Cardinality(Keys(asins, op.keyword)) = 3
    /\ ~IsNull(asins[<<ret[1], op.keyword>>].rating)
    /\ IsNull(asins[<<ret[2], op.keyword>>].rating)

----------------------------------------------------------------------------
(* apify_db.py: the price-history cache.  Times are ticks of half a day.   *)
(* SQLite stamps created_at with datetime('now'), which is UTC; the        *)
(* cutoff of every query is taken from datetime.now(), the local time of   *)
(* the process, which is the UTC time plus the zone's offset.              *)

TicksPerDay == 2
MaxNow == 4                     \* the clock stops here

CACHE_IDS == {"a1", "a2"}
TZ_OFFSETS == {-1, 0, 1}        \* UTC-12, UTC, UTC+12
CACHE_DAYS == {0, 1}
FETCHER_DAYS == {1}             \* cache_days of the price fetchers

Point(price, date) == [price |-> price, date |-> date]

Summary(price_min, price_max, price_min_date, price_max_date) ==
    [ price_min |-> price_min, price_max |-> price_max,
      price_min_date |-> price_min_date, price_max_date |-> price_max_date ]

\* a payload handed to save_apify_data; bindable is FALSE when a column
\* value is a list or a dictionary, which sqlite3 refuses to bind
Payload(asin, price, summary, amazon, buybox, new, bindable) ==
    [ asin |-> asin, price |-> price,
      price_min |-> summary.price_min, price_max |-> summary.price_max,
      price_min_date |-> summary.price_min_date,
      price_max_date |-> summary.price_max_date,
      price_amazon_history |-> amazon, price_buybox_history |-> buybox,
      price_new_history |-> new, bindable |-> bindable ]

history_fields == <<"price_amazon_history", "price_buybox_history", "price_new_history">>

\* the first history field that is not empty, <<>> when all are
FirstHistory(data) ==
    IF \A i \in DOMAIN history_fields : data[history_fields[i]] = <<>> THEN <<>>
    ELSE data[history_fields[
            CHOOSE i \in DOMAIN history_fields :
                /\ data[history_fields[i]] # <<>>
                /\ \A j \in DOMAIN history_fields :
                       data[history_fields[j]] # <<>> => i <= j]]

ValidPoint(record) == \E x \in record.price : x > 0

\* min(..., key=price) and max(..., key=price) return the first such record
FirstExtreme(valid_prices, below) ==
    valid_prices[CHOOSE i \in DOMAIN valid_prices :
        /\ \A j \in DOMAIN valid_prices :
               IF below THEN The(valid_prices[i].price) <= The(valid_prices[j].price)
                        ELSE The(valid_prices[i].price) >= The(valid_prices[j].price)
        /\ \A j \in DOMAIN valid_prices :
               valid_prices[j].price = valid_prices[i].price => i <= j]

calc_price_history(data) ==
    LET valid_prices == SelectSeq(FirstHistory(data), ValidPoint)
    IN IF valid_prices = <<>> THEN Summary(Null, Null, Null, Null)
       ELSE LET min_record == FirstExtreme(valid_prices, TRUE)
                max_record == FirstExtreme(valid_prices, FALSE)
            IN Summary(min_record.price, max_record.price,
                       min_record.date, max_record.date)

\* has_history and the choice between computed and provided values
Reconciled(data) ==
    LET has_history == \E i \in DOMAIN history_fields : data[history_fields[i]] # <<>>
        calc == calc_price_history(data)
        or(x, y) == IF IsNull(x) THEN y ELSE x
    IN IF has_history
       THEN Summary(or(calc.price_min, data.price_min), or(calc.price_max, data.price_max),
                    or(calc.price_min_date, data.price_min_date),
                    or(calc.price_max_date, data.price_max_date))
       ELSE Summary(data.price_min, data.price_max,
                    data.price_min_date, data.price_max_date)

\* the row INSERT OR REPLACE writes; created_at takes its default
Entry(data, summary, utc_now) ==
    [ price |-> data.price,
      price_min |-> summary.price_min, price_max |-> summary.price_max,
      price_min_date |-> summary.price_min_date,
      price_max_date |-> summary.price_max_date,
      created_at |-> utc_now ]

\* dictionary assignment d[key] = value
Put(d, key, value) ==
    [a \in DOMAIN d \cup {key} |-> IF a = key THEN value ELSE d[a]]


\* INSERT OR IGNORE: the row already there stays
InsertOrIgnore(c, asin, entry) ==
    [a \in DOMAIN c \cup {asin} |-> IF a \in DOMAIN c THEN c[a] ELSE entry]

\* INSERT OR REPLACE on the UNIQUE asin: the row already there is deleted
insert_or_replace(c, asin, entry) ==
    [a \in DOMAIN c \cup {asin} |-> IF a = asin THEN entry ELSE c[a]]


\* the provided summary taken whenever there is one, the series otherwise
SaveKeepingSummary(c, data, utc_now) ==
    IF IsNull(data.asin) \/ data.asin = Val("") \/ ~data.bindable
    THEN [ cache |-> c, ret |-> FALSE ]
    ELSE LET calc == calc_price_history(data)
             or(x, y) == IF IsNull(x) THEN y ELSE x
             summary == Summary(or(data.price_min, calc.price_min),
                                or(data.price_max, calc.price_max),
                                or(data.price_min_date, calc.price_min_date),
                                or(data.price_max_date, calc.price_max_date))
         IN [ cache |-> insert_or_replace(c, The(data.asin), Entry(data, summary, utc_now)),
              ret |-> TRUE ]

save_apify_data(c, data, utc_now) ==
    IF IsNull(data.asin) \/ data.asin = Val("") \/ ~data.bindable
    THEN [ cache |-> c, ret |-> FALSE ]
    ELSE [ cache |-> insert_or_replace(c, The(data.asin),
                                       Entry(data, Reconciled(data), utc_now)),
           ret |-> TRUE ]

\* (datetime.now() - timedelta(days=days)) as a tick
cutoff_date(local_now, days) == local_now - days * TicksPerDay

\* the rows "created_at >= ?" selects
ValidEntries(c, local_now, days) ==
    {a \in DOMAIN c : c[a].created_at >= cutoff_date(local_now, days)}

get_cached_data(c, asin) == IF asin \in DOMAIN c THEN Val(c[asin]) ELSE Null

is_cached(c, asin, days, local_now) == asin \in ValidEntries(c, local_now, days)

get_uncached_asins(c, asin_list, days, local_now) ==
    LET cached_asins == {asin_list[i] : i \in DOMAIN asin_list}
                            \cap ValidEntries(c, local_now, days)
        uncached(a) == a \notin cached_asins
    IN SelectSeq(asin_list, uncached)

get_cached_data_batch(c, asin_list, days, local_now) ==
    [a \in {asin_list[i] : i \in DOMAIN asin_list} \cap ValidEntries(c, local_now, days)
        |-> c[a]]


clean_expired_cache(c, days, local_now) ==
    LET expired == DOMAIN c \ ValidEntries(c, local_now, days)
    IN [ cache |-> [a \in DOMAIN c \ expired |-> c[a]],
         ret |-> Cardinality(expired) ]

\* the payloads of the model
SummaryA == Summary(Val(50), Val(500), Val(1), Val(2))
NoSummary == Summary(Null, Null, Null, Null)

SeriesMixed ==
    << Point(Val(300), Val(10)), Point(Null, Val(11)), Point(Val(100), Val(12)),
       Point(Val(0), Val(13)), Point(Val(-5), Val(14)), Point(Val(100), Val(15)) >>
SeriesInvalid == << Point(Val(0), Val(10)), Point(Null, Val(11)) >>
SeriesUndated == << Point(Val(200), Null) >>
SeriesOne == << Point(Val(150), Val(20)) >>

PAYLOADS ==
    { Payload(Val("a1"), Val(120), SummaryA, SeriesMixed, <<>>, <<>>, TRUE),
      Payload(Val("a1"), Val(120), SummaryA, <<>>, SeriesOne, SeriesMixed, TRUE),
      Payload(Val("a1"), Val(120), SummaryA, <<>>, <<>>, <<>>, TRUE),
      Payload(Val("a1"), Val(130), SummaryA, SeriesInvalid, SeriesOne, <<>>, TRUE),
      Payload(Val("a1"), Val(130), SummaryA, SeriesUndated, <<>>, <<>>, TRUE),
      Payload(Val("a1"), Null, NoSummary, <<>>, <<>>, SeriesMixed, TRUE),
      Payload(Val("a1"), Val(120), SummaryA, SeriesMixed, <<>>, <<>>, FALSE),
      Payload(Null, Val(120), SummaryA, SeriesMixed, <<>>, <<>>, TRUE),
      Payload(Val("a2"), Val(70), Summary(Val(70), Val(70), Val(3), Val(3)),
              <<>>, <<>>, <<>>, TRUE) }

ID_LISTS == { <<>>, <<"a1">>, <<"a2", "a1">>, <<"a1", "a1">> }

LocalNow == now + input.tz

CacheStep(name, arg, c, r) ==
    /\ pc = "idle"
    /\ cache' = c
    /\ ret' = r
    /\ op' = [name |-> name, keyword |-> "", arg |-> arg]
    /\ UNCHANGED <<asins, ss_data, pc, runs, input, results, stats, report, saved,
                   now, fetchers, ai, history_cache>>

Tick ==
    /\ now < MaxNow
    /\ now' = now + 1
    /\ UNCHANGED <<asins, ss_data, op, ret, pc, runs, input, results, stats, report,
                   saved, cache, fetchers, ai, history_cache>>

SaveApifyData ==
    \E data \in PAYLOADS :
        LET r == save_apify_data(cache, data, now)
        IN CacheStep("save_apify_data", data, r.cache, r.ret)

GetCachedData ==
    \E asin \in CACHE_IDS :
        CacheStep("get_cached_data", asin, cache, get_cached_data(cache, asin))

IsCached ==
    \E asin \in CACHE_IDS, days \in CACHE_DAYS :
        CacheStep("is_cached", [asin |-> asin, days |-> days], cache,
                  is_cached(cache, asin, days, LocalNow))

GetUncachedAsins ==
    \E asin_list \in ID_LISTS, days \in CACHE_DAYS :
        CacheStep("get_uncached_asins", [asins |-> asin_list, days |-> days], cache,
                  get_uncached_asins(cache, asin_list, days, LocalNow))

GetCachedDataBatch ==
    \E asin_list \in ID_LISTS, days \in CACHE_DAYS :
        CacheStep("get_cached_data_batch", [asins |-> asin_list, days |-> days], cache,
                  get_cached_data_batch(cache, asin_list, days, LocalNow))

CleanExpiredCache ==
    \E days \in CACHE_DAYS :
        LET r == clean_expired_cache(cache, days, LocalNow)
        IN CacheStep("clean_expired_cache", days, r.cache, r.ret)

\* the state after ApifyDB.__init__ on a new file, in a zone of the model
InitCache ==
    /\ asins = <<>>
    /\ ss_data = [k \in KEYWORDS |-> <<>>]
    /\ op = [name |-> "init", keyword |-> "", arg |-> <<>>]
    /\ ret = 0
    /\ pc = "idle"
    /\ runs = 0
    /\ input \in [tz : TZ_OFFSETS, cache_days : FETCHER_DAYS]
    /\ results = <<>>
    /\ stats = <<>>
    /\ report = <<>>
    /\ saved = <<>>
    /\ cache = <<>>
    /\ now = 0
    /\ fetchers = <<>>
    /\ ai = <<>>
    /\ history_cache = <<>>

NextCache ==
    \/ Tick
    \/ SaveApifyData
    \/ GetCachedData
    \/ IsCached
    \/ GetUncachedAsins
    \/ GetCachedDataBatch
    \/ CleanExpiredCache

SpecCache == InitCache /\ [][NextCache]_vars

----------------------------------------------------------------------------
(* apify_price.py: get_multiple_price_history, one step per cache or       *)
(* provider call, so that two calls can interleave.  A call takes less     *)
(* than a tick: the clock moves only while no call is in progress.         *)

FETCHERS == {1, 2}
FETCH_LISTS == { <<"a1", "a2">>, <<"a2", "a1">> }

format_cached_data(asin, cached) ==
    [ asin |-> asin, price_min |-> cached.price_min, price_max |-> cached.price_max,
      price_min_date |-> cached.price_min_date, price_max_date |-> cached.price_max_date,
      history_count |-> 0, from_cache |-> TRUE ]

\* record.get('date', ''): the date of a point without date is the empty
\* string, written 0 here (the dates of the payloads are above 0)
EmptyDate == 0

DateOf(price, date) == IF ~IsNull(price) /\ IsNull(date) THEN Val(EmptyDate) ELSE date

\* data has an asin; the summary fields of the payload are not looked at
parse_price_history(data) ==
    LET calc == calc_price_history(data)
    IN [ asin |-> The(data.asin), price_min |-> calc.price_min, price_max |-> calc.price_max,
         price_min_date |-> DateOf(calc.price_min, calc.price_min_date),
         price_max_date |-> DateOf(calc.price_max, calc.price_max_date),
         history_count |-> Len(SelectSeq(FirstHistory(data), ValidPoint)),
         from_cache |-> FALSE ]

\* what scrape_products_by_asins holds for one asin: a result with one item,
\* no result, or a result whose first item is not a dictionary
Answer(kind, data) == [kind |-> kind, data |-> data]
NoData == Answer("none", Null)
NotADict == Answer("malformed", Null)
Ok(data) == Answer("ok", Val(data))

PayloadA == Payload(Val("a1"), Val(120), SummaryA, SeriesMixed, <<>>, <<>>, TRUE)
PayloadB == Payload(Val("a1"), Val(130), NoSummary, <<>>, SeriesOne, <<>>, TRUE)
PayloadC == Payload(Val("a2"), Val(70), Summary(Val(70), Val(70), Val(3), Val(3)),
                    <<>>, <<>>, <<>>, TRUE)
Unbindable(data) == [data EXCEPT !.bindable = FALSE]

\* the provider's answers to one call: an exception, or one answer per asin
ANSWERS(p) ==
    [ raises : {FALSE},
      answer : [CACHE_IDS -> {NoData}]
                 \cup
               { [a \in CACHE_IDS |-> IF a = "a1" THEN x ELSE y] :
                   x \in { Ok(IF p = 1 THEN PayloadA ELSE PayloadB), NotADict,
                           Ok(Unbindable(PayloadA)) },
                   y \in { Ok(PayloadC), NoData } } ]
      \cup [ raises : {TRUE}, answer : {[a \in CACHE_IDS |-> NoData]} ]

NewFetcher ==
    [ pc |-> "idle", asins |-> <<>>, results |-> <<>>, hits |-> {}, uncached |-> <<>>,
      batch_results |-> <<>>, i |-> 0, after |-> {}, returned |-> 0 ]

Return(f) == [f EXCEPT !.pc = "done", !.returned = now]

FetchStep(p, f, c) ==
    /\ fetchers' = [fetchers EXCEPT ![p] = f]
    /\ cache' = c
    /\ UNCHANGED <<asins, ss_data, op, ret, pc, runs, input, results, stats, report, now, ai, history_cache>>

\* the call and its step 1: the fresh entries of the list go to the result
ReadCache(p) ==
    /\ fetchers[p].pc = "idle"
    /\ \E asin_list \in FETCH_LISTS :
          LET cached_data ==
                  get_cached_data_batch(cache, asin_list, input.cache_days, LocalNow)
          IN FetchStep(p, [fetchers[p] EXCEPT
                              !.pc = "find",
                              !.asins = asin_list,
                              !.results = [a \in DOMAIN cached_data |->
                                              format_cached_data(a, cached_data[a])],
                              !.hits = DOMAIN cached_data,
                              !.after = {q \in FETCHERS : fetchers[q].pc = "done"}],
                       cache)
    /\ UNCHANGED saved

\* step 2: the list of asins to ask the provider for
FindUncached(p) ==
    /\ fetchers[p].pc = "find"
    /\ LET uncached_asins ==
               get_uncached_asins(cache, fetchers[p].asins, input.cache_days, LocalNow)
           f == [fetchers[p] EXCEPT !.uncached = uncached_asins]
       IN FetchStep(p, IF uncached_asins = <<>> THEN Return(f)
                       ELSE [f EXCEPT !.pc = "call"],
                    cache)
    /\ UNCHANGED saved

\* step 3: the provider call; its exception ends the call with the hits
CallProvider(p) ==
    /\ fetchers[p].pc = "call"
    /\ FetchStep(p, IF input.provider[p].raises THEN Return(fetchers[p])
                    ELSE [fetchers[p] EXCEPT
                             !.pc = "loop", !.i = 1,
                             !.batch_results =
                                 [i \in DOMAIN fetchers[p].uncached |->
                                     input.provider[p].answer[fetchers[p].uncached[i]]]],
                 cache)
    /\ UNCHANGED saved

\* one round of the loop over zip(uncached_asins, batch_results)
HandleResult(p) ==
    /\ fetchers[p].pc = "loop"
    /\ LET f == fetchers[p]
           result == f.batch_results[f.i]
           next(g) == IF f.i = Len(f.batch_results) THEN Return(g)
                      ELSE [g EXCEPT !.i = f.i + 1]
       IN IF result.kind = "none"
          THEN FetchStep(p, next(f), cache) /\ UNCHANGED saved
          ELSE IF result.kind = "malformed"
          THEN FetchStep(p, Return(f), cache) /\ UNCHANGED saved
          ELSE LET raw_data == The(result.data)
                   r == save_apify_data(cache, raw_data, now)
                   parsed == parse_price_history(raw_data)
               IN /\ FetchStep(p,
                        IF IsNull(raw_data.asin) \/ raw_data.asin = Val("") THEN next(f)
                        ELSE next([f EXCEPT !.results =
                                      Put(f.results, parsed.asin, parsed)]),
                        r.cache)
                  /\ saved' = IF r.ret
                              THEN Put(saved, The(raw_data.asin), [data |-> raw_data, by |-> p])
                              ELSE saved

Calling == {p \in FETCHERS : fetchers[p].pc \notin {"idle", "done"}}

TickIdle == Calling = {} /\ Tick

InitFetch ==
    /\ asins = <<>>
    /\ ss_data = [k \in KEYWORDS |-> <<>>]
    /\ op = [name |-> "init", keyword |-> "", arg |-> <<>>]
    /\ ret = 0
    /\ pc = "idle"
    /\ runs = 0
    /\ input \in [tz : TZ_OFFSETS, cache_days : FETCHER_DAYS,
                  provider : [FETCHERS -> ANSWERS(1) \cup ANSWERS(2)]]
    /\ \A p \in FETCHERS : input.provider[p] \in ANSWERS(p)
    /\ results = <<>>
    /\ stats = <<>>
    /\ report = <<>>
    /\ saved = <<>>
    /\ cache = <<>>
    /\ now = 0
    /\ fetchers = [p \in FETCHERS |-> NewFetcher]
    /\ ai = <<>>
    /\ history_cache = <<>>

NextFetch ==
    \/ TickIdle
    \/ \E p \in FETCHERS : ReadCache(p)
    \/ \E p \in FETCHERS : FindUncached(p)
    \/ \E p \in FETCHERS : CallProvider(p)
    \/ \E p \in FETCHERS : HandleResult(p)

SpecFetch == InitFetch /\ [][NextFetch]_vars

----------------------------------------------------------------------------
(* Properties of the cache                                                 *)

\* an entry whose age exceeds days
Older(entry, days) == now - entry.created_at > days * TicksPerDay

ListedIds(asin_list) == {asin_list[i] : i \in DOMAIN asin_list}

\* the step is a call of the cache operation name (Tick leaves op alone)
CacheCall(name) == op'.name = name /\ now' = now

\* C14 (as claimed): get_uncached_asins returns exactly the listed
\* identifiers with no entry or an entry older than days,
\* get_cached_data_batch exactly the listed ones with an entry not older
\* than days, and the two are disjoint and cover the list.
C14_CachePartition ==
    [][ /\ CacheCall("get_uncached_asins") =>
            LET missing(a) == a \notin DOMAIN cache \/ Older(cache[a], op'.arg.days)
                batch == get_cached_data_batch(cache, op'.arg.asins, op'.arg.days, LocalNow)
            IN /\ ret' = SelectSeq(op'.arg.asins, missing)
               /\ ListedIds(ret') \cap DOMAIN batch = {}
               /\ ListedIds(ret') \cup DOMAIN batch = ListedIds(op'.arg.asins)
        /\ CacheCall("get_cached_data_batch") =>
            /\ DOMAIN ret' = {a \in ListedIds(op'.arg.asins) :
                                 a \in DOMAIN cache /\ ~Older(cache[a], op'.arg.days)}
            /\ \A a \in DOMAIN ret' : ret'[a] = cache[a] ]_vars

\* C15 (as claimed): no read of the cache returns the content of an entry
\* older than the freshness window: get_cached_data none older than the
\* fetchers' cache_days, get_cached_data_batch none older than its days.
C15_StaleNeverRead ==
    [][ /\ CacheCall("get_cached_data") =>
            \A entry \in ret' : ~Older(entry, input.cache_days)
        /\ CacheCall("get_cached_data_batch") =>
            \A a \in DOMAIN ret' : ~Older(ret'[a], op'.arg.days) ]_vars

StoredSummary(entry) ==
    Summary(entry.price_min, entry.price_max, entry.price_min_date, entry.price_max_date)

ProvidedSummary(data) ==
    Summary(data.price_min, data.price_max, data.price_min_date, data.price_max_date)

\* the points of a series with a price above zero, as positions
Positive(series) ==
    {i \in DOMAIN series : ~IsNull(series[i].price) /\ The(series[i].price) > 0}

\* C16 (as claimed): a payload with a non-empty raw series is stored with
\* the minimum, maximum and dates computed from the series alone, a payload
\* without series with its summary values unchanged.
C16_SeriesOverridesSummary ==
    [][ CacheCall("save_apify_data") /\ ret' = TRUE =>
          LET data == op'.arg
              series == FirstHistory(data)
              stored == StoredSummary(cache'[The(data.asin)])
              P == Positive(series)
              lo == CHOOSE i \in P : \A j \in P :
                        \/ The(series[i].price) < The(series[j].price)
                        \/ The(series[i].price) = The(series[j].price) /\ i <= j
              hi == CHOOSE i \in P : \A j \in P :
                        \/ The(series[i].price) > The(series[j].price)
                        \/ The(series[i].price) = The(series[j].price) /\ i <= j
          IN IF series = <<>> THEN stored = ProvidedSummary(data)
             ELSE IF P = {} THEN stored = Summary(Null, Null, Null, Null)
             ELSE stored = Summary(series[lo].price, series[hi].price,
                                   series[lo].date, series[hi].date) ]_vars

\* C16 (amended): the series decides the minimum and maximum when it has a
\* point of positive price, and each date when the chosen point carries
\* one; whatever the series does not give is taken from the summary.
C16_SeriesFirstThenSummary ==
    [][ CacheCall("save_apify_data") /\ ret' = TRUE =>
          LET data == op'.arg
              series == FirstHistory(data)
              stored == StoredSummary(cache'[The(data.asin)])
              P == Positive(series)
              lo == CHOOSE i \in P : \A j \in P :
                        \/ The(series[i].price) < The(series[j].price)
                        \/ The(series[i].price) = The(series[j].price) /\ i <= j
              hi == CHOOSE i \in P : \A j \in P :
                        \/ The(series[i].price) > The(series[j].price)
                        \/ The(series[i].price) = The(series[j].price) /\ i <= j
          IN IF P = {} THEN stored = ProvidedSummary(data)
             ELSE /\ stored.price_min = series[lo].price
                  /\ stored.price_max = series[hi].price
                  /\ stored.price_min_date =
                        IF IsNull(series[lo].date) THEN data.price_min_date
                        ELSE series[lo].date
                  /\ stored.price_max_date =
                        IF IsNull(series[hi].date) THEN data.price_max_date
                        ELSE series[hi].date ]_vars

\* a payload whose summary disagrees with its series has been saved, and
\* the entry carries the minimum and maximum of the series
C16_Witness ==
    /\ op.name = "save_apify_data"
    /\ ret = TRUE
    /\ Positive(FirstHistory(op.arg)) # {}
    /\ ~IsNull(op.arg.price_min)
    /\ cache[The(op.arg.asin)].price_min # op.arg.price_min
    /\ cache[The(op.arg.asin)].price_max # op.arg.price_max
    /\ cache[The(op.arg.asin)].created_at = now

\* C17 (as claimed): clean_expired_cache(days) deletes exactly the entries
\* older than days and returns their number, and no other operation of the
\* cache removes an entry.
C17_CleanExpired ==
    [][ /\ CacheCall("clean_expired_cache") =>
            LET expired == {a \in DOMAIN cache : Older(cache[a], op'.arg)}
            IN /\ DOMAIN cache' = DOMAIN cache \ expired
               /\ \A a \in DOMAIN cache' : cache'[a] = cache[a]
               /\ ret' = Cardinality(expired)
        /\ ~CacheCall("clean_expired_cache") => DOMAIN cache \subseteq DOMAIN cache' ]_vars

----------------------------------------------------------------------------
(* Properties of the price fetcher                                         *)

\* the call p returns in this step
Returns(p) == fetchers[p].pc # "done" /\ fetchers'[p].pc = "done"

\* C20 (as claimed): when get_multiple_price_history returns, every cache
\* hit is in the result map, and so is every asin sent to the provider for
\* which the provider holds valid data, whose entry is then in the cache;
\* an error or a malformed result omits only the asin it is about.
C20_FailureIsolation ==
    [][ \A p \in FETCHERS :
          Returns(p) /\ ~input.provider[p].raises =>
              /\ fetchers'[p].hits \subseteq DOMAIN fetchers'[p].results
              /\ \A a \in ListedIds(fetchers'[p].uncached) :
                    LET answer == input.provider[p].answer[a]
                    IN answer.kind = "ok" /\ The(answer.data).bindable =>
                           /\ a \in DOMAIN fetchers'[p].results
                           /\ a \in DOMAIN cache' ]_vars

\* C19 (as claimed): when get_multiple_price_history returns, every asin of
\* its result map has a cache entry not older than cache_days, and a call
\* begun after that return and within cache_days of it sends none of those
\* asins to the provider.
C19_NoRefetchInWindow ==
    [][ \A p \in FETCHERS :
          /\ Returns(p) =>
                \A a \in DOMAIN fetchers'[p].results :
                    a \in DOMAIN cache' /\ ~Older(cache'[a], input.cache_days)
          /\ fetchers[p].pc = "find" /\ fetchers'[p].pc # "find" =>
                \A a \in ListedIds(fetchers'[p].uncached) :
                    \A q \in fetchers[p].after :
                        ~ /\ a \in DOMAIN fetchers[q].results
                          /\ now - fetchers[q].returned <= input.cache_days * TicksPerDay ]_vars

\* both calls have returned and neither began after the other had returned
Overlapped ==
    \A p \in FETCHERS : fetchers[p].pc = "done" /\ fetchers[p].after = {}

\* the asins both calls found uncached, fetched and saved
SavedByBoth ==
    {a \in CACHE_IDS :
        \A p \in FETCHERS :
            /\ a \in ListedIds(fetchers[p].uncached)
            /\ a \in DOMAIN fetchers[p].results
            /\ input.provider[p].answer[a].kind = "ok"
            /\ The(input.provider[p].answer[a].data).bindable}

\* C18: benign cache race.  When two overlapping calls have both found an
\* asin uncached, fetched and saved it, the cache holds for it the entry of
\* the payload whose save committed last, every column from that payload,
\* stamped with the time of the calls, and when the calls return the entry
\* is inside the freshness window.
C18_BenignRace ==
    Overlapped =>
        \A a \in SavedByBoth :
            /\ a \in DOMAIN cache /\ a \in DOMAIN saved
            /\ cache[a] = Entry(saved[a].data, Reconciled(saved[a].data),
                                fetchers[saved[a].by].returned)
            /\ now = fetchers[saved[a].by].returned =>
                   /\ ~Older(cache[a], input.cache_days)
                   /\ is_cached(cache, a, input.cache_days, LocalNow)

\* the two calls saved payloads that differ for a1, and the save of call 1
\* committed after the save of call 2
C18_Witness ==
    /\ Overlapped
    /\ "a1" \in SavedByBoth
    /\ input.provider[1].answer["a1"] # input.provider[2].answer["a1"]
    /\ saved["a1"].by = 1
    /\ cache["a1"].price = PayloadA.price
    /\ fetchers[2].results["a1"].price_min # fetchers[1].results["a1"].price_min

----------------------------------------------------------------------------
(* ai_analyzer.py: GeminiProductAnalyzer.  A batch is one call of          *)
(* filter_products_async.  The coroutines run on one event loop, so a step *)
(* is what one coroutine does between two awaits: the main loop from its   *)
(* wake-up to asyncio.wait, a judgment from the judge's answer to its next *)
(* await.  _concurrency_lock is never contended, because nothing awaits    *)
(* while it is held.  The pauses between two attempts of a judgment are    *)
(* part of the attempt that follows.                                       *)

MaxBatches == 2                 \* calls of filter_products_async by NextJudge

StartConcurrent == 5
SuccessThreshold == 3
ConcurrencyStep == 2
DefaultMaxRetries == 3

MAX_CONCURRENT == {1, 6, 50}
MAX_RESULTS == {1, 100}
BATCH_SIZES == {1, 3}

Min(a, b) == IF a <= b THEN a ELSE b
Max(a, b) == IF a >= b THEN a ELSE b

\* an error message is the set of the markers it contains
ServerErrorMarkers == {"503", "504", "RESOURCE_EXHAUSTED", "timeout"}
is_server_error(error_msg) == \E err \in ServerErrorMarkers : err \in error_msg

\* a transient failure that halves the limit and keeps the streak
AdjustKeepingStreak(a, success, error_msg) ==
    IF success
    THEN IF a.consecutive_successes + 1 >= SuccessThreshold
         THEN [a EXCEPT !.current_concurrent =
                            Min(a.current_concurrent + ConcurrencyStep, a.max_concurrent),
                        !.consecutive_successes = 0]
         ELSE [a EXCEPT !.consecutive_successes = a.consecutive_successes + 1]
    ELSE IF is_server_error(error_msg)
         THEN [a EXCEPT !.current_concurrent = Max(1, a.current_concurrent \div 2)]
         ELSE a

adjust_concurrency(a, success, error_msg) ==
    IF success
    THEN IF a.consecutive_successes + 1 >= SuccessThreshold
         THEN [a EXCEPT !.current_concurrent =
                            Min(a.current_concurrent + ConcurrencyStep, a.max_concurrent),
                        !.consecutive_successes = 0]
         ELSE [a EXCEPT !.consecutive_successes = a.consecutive_successes + 1]
    ELSE IF is_server_error(error_msg)
         THEN [a EXCEPT !.consecutive_successes = 0,
                        !.current_concurrent = Max(1, a.current_concurrent \div 2)]
         ELSE a

\* what generate_content does: it returns a text or raises.  A text is
\* prose or a JSON object; is_relevant of the object is a JSON value.
JBool(b) == [type |-> "bool", b |-> b]
JStr(s) == [type |-> "str", s |-> s]
JNull == [type |-> "null"]

Text(kind, is_relevant) == [raises |-> FALSE, kind |-> kind, is_relevant |-> is_relevant]
Raise(error_msg) == [raises |-> TRUE, error_msg |-> error_msg]

RESPONSES ==
    { Text("object", JBool(TRUE)), Text("object", JBool(FALSE)), Text("object", JStr("yes")),
      Text("object", JNull), Text("prose", JNull),
      Raise({"503"}), Raise({"504"}), Raise({"429", "RESOURCE_EXHAUSTED"}),
      Raise({"timeout"}), Raise({"400"}) }

\* _parse_response: None ({}) unless the text is a JSON object; is_relevant
\* of a string is membership in ['true', 'yes', '1'], of anything else bool()
parse_response(response) ==
    IF response.kind # "object" THEN Null
    ELSE IF response.is_relevant.type = "str"
         THEN Val(response.is_relevant.s \in {"true", "yes", "1"})
    ELSE IF response.is_relevant.type = "bool" THEN Val(response.is_relevant.b)
    ELSE Val(FALSE)

Task(st, attempt, result) == [st |-> st, attempt |-> attempt, result |-> result]
PendingTask == Task("pending", 0, Null)

\* one attempt of validate_product_async, from the answer of the judge to
\* the next await: a record of the analyzer and of the task afterwards
RetryOnceMore(t) ==
    IF t.attempt < DefaultMaxRetries
    THEN Task("calling", t.attempt + 1, Null)
    ELSE Task("done", 0, Null)

RetryOrGiveUp(t) ==
    IF t.attempt < DefaultMaxRetries - 1
    THEN Task("calling", t.attempt + 1, Null)
    ELSE Task("done", 0, Null)

validate_product_async(a, t, response) ==
    IF response.raises
    THEN [ a |-> adjust_concurrency(a, FALSE, response.error_msg), t |-> RetryOrGiveUp(t) ]
    ELSE IF ~IsNull(parse_response(response))
         THEN [ a |-> adjust_concurrency(a, TRUE, {}),
                t |-> Task(IF a.rate_limit_delay > 0 THEN "sleeping" ELSE "done", 0,
                           parse_response(response)) ]
         ELSE [ a |-> a, t |-> RetryOrGiveUp(t) ]

\* the analyzer after __init__
NewAnalyzer(max_concurrent, rate_limit_delay) ==
    [ max_concurrent |-> max_concurrent,
      rate_limit_delay |-> rate_limit_delay,
      current_concurrent |-> StartConcurrent,
      consecutive_successes |-> 0,
      pc |-> "idle", batches |-> 0,
      tasks |-> <<>>, relevant_products |-> <<>>, results |-> 0, returned |-> <<>> ]

Indices(a, st) == {i \in DOMAIN a.tasks : a.tasks[i].st = st}
pending_indices(a) == Indices(a, "pending")
active_tasks(a) == Indices(a, "calling") \cup Indices(a, "sleeping") \cup Indices(a, "done")

JudgeStep(name, arg, a) ==
    /\ ai' = a
    /\ op' = [name |-> name, keyword |-> "", arg |-> arg]
    /\ UNCHANGED <<asins, ss_data, ret, pc, runs, input, results, stats, report, saved,
                   cache, now, fetchers, history_cache>>

\* filter_products_async up to its loop: the concurrency state is reset
StartBatch ==
    /\ ai.pc = "idle"
    /\ ai.batches < input.batches
    /\ JudgeStep("filter_products_async", input.products,
                 [ai EXCEPT !.current_concurrent = StartConcurrent,
                            !.consecutive_successes = 0,
                            !.pc = "top",
                            !.tasks = [i \in 1..input.products |-> PendingTask],
                            !.relevant_products = <<>>, !.results = 0,
                            !.returned = <<>>])

\* the return without the slice [:max_results]
ReturnedWhole(a) ==
    [a EXCEPT !.pc = "idle", !.batches = a.batches + 1,
              !.returned = a.relevant_products]

Returned(a) ==
    [a EXCEPT !.pc = "idle", !.batches = a.batches + 1,
              !.returned = SubSeq(a.relevant_products, 1,
                                  Min(input.max_results, Len(a.relevant_products)))]

\* the head of the loop when enough relevant products were found
StopEarly ==
    /\ ai.pc = "top"
    /\ pending_indices(ai) # {} \/ active_tasks(ai) # {}
    /\ Len(ai.relevant_products) >= input.max_results
    /\ JudgeStep("cancel", active_tasks(ai),
                 Returned([ai EXCEPT !.tasks =
                     [i \in DOMAIN ai.tasks |->
                        IF i \in active_tasks(ai)
                        THEN Task("cancelled", 0, Null)
                        ELSE ai.tasks[i]]]))

\* the indices popped from pending_indices, lowest first, while fewer than
\* _current_concurrent tasks are active
Started(a) ==
    LET room == a.current_concurrent - Cardinality(active_tasks(a))
    IN {i \in pending_indices(a) :
           Cardinality({j \in pending_indices(a) : j < i}) < room}

StartTasks ==
    /\ ai.pc = "top"
    /\ pending_indices(ai) # {} \/ active_tasks(ai) # {}
    /\ Len(ai.relevant_products) < input.max_results
    /\ LET a == [ai EXCEPT !.tasks = [i \in DOMAIN ai.tasks |->
                                         IF i \in Started(ai) THEN Task("calling", 0, Null)
                                         ELSE ai.tasks[i]]]
       IN JudgeStep("create_task", Started(ai),
                    IF active_tasks(a) = {} THEN Returned(a) ELSE [a EXCEPT !.pc = "wait"])

\* the loop condition is false
Finish ==
    /\ ai.pc = "top"
    /\ pending_indices(ai) = {} /\ active_tasks(ai) = {}
    /\ JudgeStep("return", <<>>, Returned(ai))

\* a judgment gets the answer of the judge
Respond ==
    /\ ai.pc = "wait"
    /\ \E i \in Indices(ai, "calling") : \E response \in input.responses :
         LET r == validate_product_async(ai, ai.tasks[i], response)
         IN JudgeStep("validate_product_async", <<i, response>>,
                      [r.a EXCEPT !.tasks[i] = r.t])

\* asyncio.sleep(rate_limit_delay) is over and the judgment returns
ReturnResult ==
    /\ ai.pc = "wait"
    /\ \E i \in Indices(ai, "sleeping") :
         JudgeStep("sleep", i, [ai EXCEPT !.tasks[i].st = "done"])

\* asyncio.wait returns the finished tasks; the loop over them runs in the
\* order of a set of tasks, which is any order
RelevantDone(a) == {i \in Indices(a, "done") : a.tasks[i].result = Val(TRUE)}

Collect ==
    /\ ai.pc = "wait"
    /\ Indices(ai, "done") # {}
    /\ \E order \in Orderings(RelevantDone(ai)) :
         JudgeStep("wait", Indices(ai, "done"),
                   [ai EXCEPT !.pc = "top",
                              !.tasks = [i \in DOMAIN ai.tasks |->
                                           IF ai.tasks[i].st = "done"
                                           THEN Task("collected", 0, ai.tasks[i].result)
                                           ELSE ai.tasks[i]],
                              !.results = ai.results +
                                  Cardinality({i \in Indices(ai, "done") :
                                                  ~IsNull(ai.tasks[i].result)}),
                              !.relevant_products = ai.relevant_products \o order])

JudgeInputs ==
    [ max_concurrent : MAX_CONCURRENT, max_results : MAX_RESULTS, products : BATCH_SIZES,
      rate_limit_delay : {1}, responses : {RESPONSES}, batches : {MaxBatches} ]

InitJudge ==
    /\ asins = <<>>
    /\ ss_data = [k \in KEYWORDS |-> <<>>]
    /\ op = [name |-> "init", keyword |-> "", arg |-> <<>>]
    /\ ret = 0
    /\ pc = "idle"
    /\ runs = 0
    /\ input \in JudgeInputs
    /\ results = <<>>
    /\ stats = <<>>
    /\ report = <<>>
    /\ saved = <<>>
    /\ cache = <<>>
    /\ now = 0
    /\ fetchers = <<>>
    /\ ai = NewAnalyzer(input.max_concurrent, input.rate_limit_delay)
    /\ history_cache = <<>>

NextJudge ==
    \/ StartBatch
    \/ StopEarly
    \/ StartTasks
    \/ Finish
    \/ Respond
    \/ ReturnResult
    \/ Collect

SpecJudge == InitJudge /\ [][NextJudge]_vars

\* one batch under the scheduling of the event loop: the coroutine of
\* filter_products_async runs whenever it is ready, every call of the judge
\* returns, and every sleep ends
\* the outcomes of a call of the judge: a verdict, an unparsable answer, a
\* transient error, another error
OUTCOMES ==
    { Text("object", JBool(TRUE)), Text("object", JBool(FALSE)), Text("prose", JNull),
      Raise({"503"}), Raise({"400"}) }

LiveInputs ==
    [ max_concurrent : {1, 50}, max_results : MAX_RESULTS, products : BATCH_SIZES,
      rate_limit_delay : {1}, responses : {OUTCOMES}, batches : {1} ]

InitLive ==
    /\ asins = <<>>
    /\ ss_data = [k \in KEYWORDS |-> <<>>]
    /\ op = [name |-> "init", keyword |-> "", arg |-> <<>>]
    /\ ret = 0
    /\ pc = "idle"
    /\ runs = 0
    /\ input \in LiveInputs
    /\ results = <<>>
    /\ stats = <<>>
    /\ report = <<>>
    /\ saved = <<>>
    /\ cache = <<>>
    /\ now = 0
    /\ fetchers = <<>>
    /\ ai = NewAnalyzer(input.max_concurrent, input.rate_limit_delay)
    /\ history_cache = <<>>

MainStep == StopEarly \/ StartTasks \/ Finish \/ Collect

SpecLive ==
    /\ InitLive
    /\ [][NextJudge]_vars
    /\ WF_vars(MainStep)
    /\ WF_vars(Respond)
    /\ WF_vars(ReturnResult)

\* one batch of more products than the starting concurrency, of an analyzer
\* made with rate_limit_delay=0 and a judge that always gives a verdict
VERDICTS == { Text("object", JBool(TRUE)), Text("object", JBool(FALSE)) }

StopInputs ==
    [ max_concurrent : {50}, max_results : {1, 2}, products : {StartConcurrent + 1},
      rate_limit_delay : {0}, responses : {VERDICTS}, batches : {1} ]

InitStop ==
    /\ asins = <<>>
    /\ ss_data = [k \in KEYWORDS |-> <<>>]
    /\ op = [name |-> "init", keyword |-> "", arg |-> <<>>]
    /\ ret = 0
    /\ pc = "idle"
    /\ runs = 0
    /\ input \in StopInputs
    /\ results = <<>>
    /\ stats = <<>>
    /\ report = <<>>
    /\ saved = <<>>
    /\ cache = <<>>
    /\ now = 0
    /\ fetchers = <<>>
    /\ ai = NewAnalyzer(input.max_concurrent, input.rate_limit_delay)
    /\ history_cache = <<>>

NextStop ==
    \/ StartBatch
    \/ StopEarly
    \/ StartTasks
    \/ Finish
    \/ Respond
    \/ Collect

SpecStop == InitStop /\ [][NextStop]_vars

----------------------------------------------------------------------------
(* Properties of the relevance filter                                      *)

\* the step is one attempt of the judgment of product Judged
JudgeAnswered == op'.name = "validate_product_async"
Judged == op'.arg[1]
Answer2 == op'.arg[2]

\* the attempt gave the judgment a result
Succeeded == ~IsNull(ai'.tasks[Judged].result)
\* the attempt raised with one of the messages of a transient server condition
TransientFailure ==
    /\ Answer2.raises
    /\ Answer2.error_msg \cap {"503", "504", "RESOURCE_EXHAUSTED", "timeout"} # {}

\* C22: the success that completes a streak of three raises the limit by 2,
\* to max_concurrent at most, and restarts the streak; an earlier success
\* only lengthens the streak; one transient failure sets the limit to half
\* of it (integer division, at least 1) and the streak to zero.
C22_AdaptiveFeedback ==
    [][ JudgeAnswered =>
          /\ ai.consecutive_successes \in 0..2
          /\ Succeeded /\ ai.consecutive_successes = 2 =>
                /\ ai'.current_concurrent =
                       Min(ai.current_concurrent + 2, ai.max_concurrent)
                /\ ai'.current_concurrent <= ai.max_concurrent
                /\ ai'.consecutive_successes = 0
          /\ Succeeded /\ ai.consecutive_successes < 2 =>
                /\ ai'.current_concurrent = ai.current_concurrent
                /\ ai'.consecutive_successes = ai.consecutive_successes + 1
          /\ TransientFailure =>
                /\ ai'.current_concurrent = Max(1, ai.current_concurrent \div 2)
                /\ ai'.consecutive_successes = 0 ]_vars

\* a limit halved by a transient failure (5 to 2) and raised by the streak
\* of three successes that followed (2 to 4)
C22_Witness ==
    /\ ai # <<>>
    /\ op.name = "validate_product_async"
    /\ ~op.arg[2].raises
    /\ ai.current_concurrent = 4
    /\ ai.consecutive_successes = 0

\* C23: an attempt whose output cannot be parsed, or that raises a
\* non-transient error, changes neither the limit nor the streak; the
\* judgment is attempted again unless this was attempt number max_retries,
\* and then it ends without a result, the other judgments go on, and the
\* product is never among the relevant ones.
C23_NonTransientFailure ==
    [][ /\ JudgeAnswered /\ ~Succeeded /\ ~TransientFailure =>
            /\ ai'.current_concurrent = ai.current_concurrent
            /\ ai'.consecutive_successes = ai.consecutive_successes
            /\ ai.tasks[Judged].attempt + 1 <= DefaultMaxRetries
            /\ IF ai.tasks[Judged].attempt + 1 < DefaultMaxRetries
               THEN ai'.tasks[Judged] = Task("calling", ai.tasks[Judged].attempt + 1, Null)
               ELSE ai'.tasks[Judged] = Task("done", 0, Null)
            /\ ai'.pc = "wait"
            /\ \A i \in DOMAIN ai.tasks \ {Judged} : ai'.tasks[i] = ai.tasks[i]
        /\ ai' # <<>> =>
             \A n \in DOMAIN ai'.relevant_products :
                ai'.tasks[ai'.relevant_products[n]].result = Val(TRUE) ]_vars

\* the third attempt of a judgment got prose, the judgment ended without a
\* result, the limit is still 5 and another product is relevant
C23_Witness ==
    /\ ai # <<>>
    /\ op.name = "validate_product_async"
    /\ op.arg[2] = Text("prose", JNull)
    /\ ai.tasks[op.arg[1]] = Task("done", 0, Null)
    /\ ai.current_concurrent = StartConcurrent
    /\ \E i \in DOMAIN ai.tasks : ai.tasks[i].st = "sleeping"

\* filter_products_async has returned
BatchReturned == ai.pc = "idle" /\ ai.batches > 0

\* C24: no judgment is started once max_results relevant products are
\* found; when the batch returns no judgment is in flight, it returns at
\* most max_results products, each with a relevant verdict, and if it found
\* fewer than max_results every product was submitted to the judge.
C24_EarlyStop ==
    [][ /\ op'.name = "create_task" /\ op'.arg # {} =>
            Len(ai.relevant_products) < input.max_results
        /\ BatchReturned' =>
            /\ active_tasks(ai') = {}
            /\ Len(ai'.returned) <= input.max_results
            /\ \A n \in DOMAIN ai'.returned :
                  /\ ai'.tasks[ai'.returned[n]].result = Val(TRUE)
                  /\ \A m \in DOMAIN ai'.returned : ai'.returned[m] = ai'.returned[n] => m = n
            /\ Len(ai'.relevant_products) < input.max_results =>
                  /\ pending_indices(ai') = {}
                  /\ \A i \in DOMAIN ai'.tasks : ai'.tasks[i].st = "collected" ]_vars

\* a batch stopped with more relevant products found than asked for, a
\* judgment cancelled and a product never submitted
C24_Witness ==
    /\ ai # <<>>
    /\ BatchReturned
    /\ op.name = "cancel"
    /\ Len(ai.relevant_products) > input.max_results
    /\ Len(ai.returned) = input.max_results
    /\ pending_indices(ai) # {}
    /\ Indices(ai, "cancelled") # {}

\* C30: during a batch the limit is between 1 and max_concurrent, and a
\* batch starts with the limit 5 and no streak whatever came before.
C30_LimitInRange ==
    ai.pc # "idle" =>
        /\ 1 <= ai.current_concurrent
        /\ ai.current_concurrent <= ai.max_concurrent
        /\ op.name = "filter_products_async" =>
              ai.current_concurrent = 5 /\ ai.consecutive_successes = 0

----------------------------------------------------------------------------
(* Properties of the statistics of the category stage                      *)

\* the rows of the selected group with a known positive price: the rows of
\* sub-category top that are unfiltered when the stage runs
SelectedPriced(db, keyword, top) ==
    {k \in Unfiltered(db, keyword) :
        db[k].category_sub = top /\ ~IsNull(db[k].price) /\ The(db[k].price) > 0}

\* C28: the mean and the median price filter_by_top_category returns are
\* those of the known positive prices of the unfiltered rows of the top
\* sub-category; rows tagged by an earlier stage do not contribute.
C28_MajorityPriceStatistics ==
    [][ op'.name = "filter_by_top_category" /\ ~IsNull(ret'.top_category) =>
          LET S == SelectedPriced(asins, op'.keyword, ret'.top_category)
          IN /\ ret'.avg_price = AvgPrice(asins, S)
             /\ ret'.median_price = MedianPrice(SortedPrices(asins, S)) ]_vars

----------------------------------------------------------------------------
(* category.py: extract_product_types.  A text is a sequence of            *)
(* characters, so that cleaning, splitting, the length of a word and the   *)
(* substring test are computed as the code computes them.                  *)

MaxNames == 3                   \* longest search_results list of NextTypes

LowerCase == {"a", "b", "c", "d", "e", "l", "o", "p", "r", "s", "t", "x"}
UpperCase == {"C", "R"}
Lower(ch) == IF ch = "C" THEN "c" ELSE IF ch = "R" THEN "r" ELSE ch

\* re.sub(r'[^a-zA-Z\s]', ' ', text.lower())
Clean(text) ==
    [i \in DOMAIN text |-> IF text[i] \in LowerCase \cup UpperCase THEN Lower(text[i]) ELSE " "]

\* str.split(): the maximal runs of characters other than white space
RECURSIVE Split(_)
Split(text) ==
    IF text = <<>> THEN <<>>
    ELSE IF Head(text) = " " THEN Split(Tail(text))
    ELSE LET stops == {i \in DOMAIN text : text[i] = " "}
             end == IF stops = {} THEN Len(text) + 1
                    ELSE CHOOSE i \in stops : \A j \in stops : i <= j
         IN <<SubSeq(text, 1, end - 1)>> \o Split(SubSeq(text, end, Len(text)))

\* ' '.join(words)
RECURSIVE Join(_)
Join(words) ==
    IF Len(words) = 0 THEN <<>>
    ELSE IF Len(words) = 1 THEN words[1]
    ELSE words[1] \o <<" ">> \o Join(Tail(words))

extract_ngrams(text, n) ==
    LET words == Split(Clean(text))
    IN IF Len(words) < n THEN <<>>
       ELSE [i \in 1..(Len(words) - n + 1) |-> Join(SubSeq(words, i, i + n - 1))]

\* the words of STOPWORDS that occur in the names of the model
STOPWORDS == { <<"r", "e", "d">>, <<"x", "l">>, <<"t", "o", "p">>, <<"s", "e", "t">> }

NGRAM_SIZES == <<1, 2, 3>>

\* the n-grams of one name that are counted, in the order the loops reach them
RECURSIVE Candidates(_, _, _)
Candidates(name, stopwords, k) ==
    IF k > Len(NGRAM_SIZES) THEN <<>>
    ELSE LET n == NGRAM_SIZES[k]
             ngrams == extract_ngrams(name, n)
             kept(ngram) ==
                 LET words == Split(ngram)
                 IN /\ ~(n = 1 /\ ngram \in stopwords)
                    /\ ~(n > 1 /\ \A i \in DOMAIN words : words[i] \in stopwords)
                    /\ ~(n = 1 /\ Len(ngram) < 3)
         IN SelectSeq(ngrams, kept) \o Candidates(name, stopwords, k + 1)

RECURSIVE AllCandidates(_, _)
AllCandidates(search_results, stopwords) ==
    IF search_results = <<>> THEN <<>>
    ELSE Candidates(Head(search_results), stopwords, 1)
             \o AllCandidates(Tail(search_results), stopwords)

\* Counter: the distinct keys in the order of their first occurrence
RECURSIVE FirstOccurrences(_)
FirstOccurrences(q) ==
    IF q = <<>> THEN <<>>
    ELSE LET front == FirstOccurrences(SubSeq(q, 1, Len(q) - 1))
             last == q[Len(q)]
         IN IF \E i \in DOMAIN front : front[i] = last THEN front ELSE Append(front, last)

CountOf(q, x) == Cardinality({i \in DOMAIN q : q[i] = x})

WordCount(ngram) == Len(Split(ngram))

\* the sort key with the frequency alone
BeforeByFrequency(counted, x, y) == CountOf(counted, x) > CountOf(counted, y)

\* key=lambda x: (-len(x[0].split()), -x[1]): x sorts before y
Before(counted, x, y) ==
    \/ WordCount(x) > WordCount(y)
    \/ WordCount(x) = WordCount(y) /\ CountOf(counted, x) > CountOf(counted, y)

\* list.sort is stable: of the entries no other sorts before, the first
RECURSIVE StableSort(_, _)
StableSort(q, counted) ==
    IF q = <<>> THEN <<>>
    ELSE LET least == {j \in DOMAIN q : \A m \in DOMAIN q : ~Before(counted, q[m], q[j])}
             i == CHOOSE j \in least : \A m \in least : j <= m
         IN <<q[i]>> \o StableSort(SubSeq(q, 1, i - 1) \o SubSeq(q, i + 1, Len(q)), counted)

\* ngram in existing
IsSubstring(x, y) ==
    \E i \in 1..(Len(y) - Len(x) + 1) : SubSeq(y, i, i + Len(x) - 1) = x

\* the loop that drops an n-gram contained in one already selected and
\* stops at top_n
RECURSIVE Deduplicate(_, _, _)
Deduplicate(valid_ngrams, result, top_n) ==
    IF valid_ngrams = <<>> THEN result
    ELSE LET ngram == Head(valid_ngrams)
             is_subset == \E i \in DOMAIN result :
                              IsSubstring(ngram, result[i]) /\ ngram # result[i]
             r == IF is_subset THEN result ELSE Append(result, ngram)
         IN IF Len(r) >= top_n THEN r
            ELSE Deduplicate(Tail(valid_ngrams), r, top_n)

extract_product_types(search_results, search_keyword, min_count, top_n) ==
    LET stopwords == STOPWORDS \cup {Split(Clean(search_keyword))[i] :
                                       i \in DOMAIN Split(Clean(search_keyword))}
        counted == AllCandidates(search_results, stopwords)
        frequent(ngram) == CountOf(counted, ngram) >= min_count
        valid_ngrams == SelectSeq(FirstOccurrences(counted), frequent)
    IN Deduplicate(StableSort(valid_ngrams, counted), <<>>, top_n)

\* product names: 'Cot pad, red', 'cot pad', 'pads xl ab', 'pads', 'Red pad-ab', ''
NAMES ==
    { <<"C", "o", "t", " ", "p", "a", "d", ",", " ", "r", "e", "d">>,
      <<"c", "o", "t", " ", "p", "a", "d">>,
      <<"p", "a", "d", "s", " ", "x", "l", " ", "a", "b">>,
      <<"p", "a", "d", "s">>,
      <<"R", "e", "d", " ", "p", "a", "d", "-", "a", "b">>,
      <<>> }

\* search keywords: 'cot', 'top cot'
SEARCH_KEYWORDS == { <<"c", "o", "t">>, <<"t", "o", "p", " ", "c", "o", "t">> }

TypeInputs ==
    [ names : UNION {[1..n -> NAMES] : n \in 0..MaxNames},
      search_keyword : SEARCH_KEYWORDS, min_count : {1, 2}, top_n : {2, 20} ]

InitTypes ==
    /\ asins = <<>>
    /\ ss_data = [k \in KEYWORDS |-> <<>>]
    /\ op = [name |-> "init", keyword |-> "", arg |-> <<>>]
    /\ ret = 0
    /\ pc = "idle"
    /\ runs = 0
    /\ input \in TypeInputs
    /\ results = <<>>
    /\ stats = <<>>
    /\ report = <<>>
    /\ saved = <<>>
    /\ cache = <<>>
    /\ now = 0
    /\ fetchers = <<>>
    /\ ai = <<>>
    /\ history_cache = <<>>

ExtractProductTypes ==
    /\ op.name = "init"
    /\ ret' = extract_product_types(input.names, input.search_keyword, input.min_count,
                                    input.top_n)
    /\ op' = [name |-> "extract_product_types", keyword |-> "", arg |-> <<>>]
    /\ UNCHANGED <<asins, ss_data, pc, runs, input, results, stats, report, saved,
                   cache, now, fetchers, ai, history_cache>>

NextTypes == ExtractProductTypes

SpecTypes == InitTypes /\ [][NextTypes]_vars

----------------------------------------------------------------------------
(* Properties of the product types                                         *)

\* the words of the search keyword
SearchWords == {Split(Clean(input.search_keyword))[i] :
                   i \in DOMAIN Split(Clean(input.search_keyword))}

\* how often a phrase occurs as a run of whole words in the names
Occurrences(ngram) ==
    LET grams(name) == extract_ngrams(name, WordCount(ngram))
        hits == {<<i, j>> \in (DOMAIN input.names) \X (1..40) :
                    j \in DOMAIN grams(input.names[i]) /\ grams(input.names[i])[j] = ngram}
    IN Cardinality(hits)

\* C29: the list is ordered by number of words descending and, among equal
\* numbers of words, by frequency descending; no entry is made only of
\* stop-words or words of the search keyword, no single word has fewer than
\* 3 characters, every entry occurs at least min_count times, and no entry
\* is a substring of an entry before it.
C29_ProductTypes ==
    op.name = "extract_product_types" =>
        /\ \A i, j \in DOMAIN ret : i < j =>
              /\ WordCount(ret[i]) >= WordCount(ret[j])
              /\ WordCount(ret[i]) = WordCount(ret[j]) =>
                     Occurrences(ret[i]) >= Occurrences(ret[j])
              /\ ~IsSubstring(ret[j], ret[i])
        /\ \A i \in DOMAIN ret :
              /\ \E n \in DOMAIN Split(ret[i]) :
                     Split(ret[i])[n] \notin STOPWORDS \cup SearchWords
              /\ WordCount(ret[i]) = 1 => Len(ret[i]) >= 3
              /\ Occurrences(ret[i]) >= input.min_count

\* a phrase of two words before a single word, while a frequent word that
\* is part of the phrase is left out
C29_Witness ==
    /\ op.name = "extract_product_types"
    /\ Len(ret) >= 2
    /\ WordCount(ret[1]) >= 2
    /\ WordCount(ret[Len(ret)]) = 1
    /\ \E i \in DOMAIN Split(ret[1]) :
          /\ Split(ret[1])[i] \notin STOPWORDS \cup SearchWords
          /\ Len(Split(ret[1])[i]) >= 3
          /\ Occurrences(Split(ret[1])[i]) >= input.min_count
          /\ \A j \in DOMAIN ret : ret[j] # Split(ret[1])[i]

----------------------------------------------------------------------------
(* Properties of run()                                                     *)

\* the asins with a fresh row in the sales-history cache
FreshHistory == get_cached_sellerspirit_history(history_cache, ASINS, DefaultCacheDays)

\* C21 (as claimed, for the sales-history fetch): the enrichment stage asks
\* the hook only for the asins get_asins_needing_history_fetch reports, so
\* never for one with a fresh row in the sales-history cache.
C21_OnlyFetchMissing ==
    [][op'.name = "enrich_with_sellerspirit_history" /\ pc = "step7_5" =>
          op'.arg \subseteq
              get_asins_needing_history_fetch(history_cache,
                                              get_asins_for_enrichment(asins, input.keyword),
                                              DefaultCacheDays)]_vars

\* the order the stages are claimed to run in
StageOrder ==
    << "reset_filter_status", "filter_sponsored_asins", "filter_by_top_category",
       "filter_low_sales_asins", "enrich_with_sellerspirit_history",
       "filter_by_listing_date", "filter_by_price", "export_to_csv" >>

StepOfRun == pc # pc' \/ op'.name = "scrape_keyword"

\* C25: within one run the reset comes before the first filter stage and
\* every stage starts right after the stage before it in the order
\* sponsored, category, sales, enrichment, listing date, price, export has
\* returned; the reset is not run again and no stage runs twice in a run.
C25_FixedStageOrder ==
    [][StepOfRun =>
          /\ \A i \in 2..Len(StageOrder) :
                op'.name = StageOrder[i] => op.name = StageOrder[i - 1]
          /\ op.name \in {StageOrder[i] : i \in 1..Len(StageOrder) - 1} =>
                \E i \in 2..Len(StageOrder) :
                    op.name = StageOrder[i - 1] /\ op'.name = StageOrder[i]
          /\ op'.name = StageOrder[1] => op.name = "analyze_categories"]_vars

\* a run went through every stage up to the export
C25_Witness ==
    /\ pc = "idle" /\ op.name = "export_to_csv"
    /\ Len(stats) = Len(StageOrder) - 2
    /\ \E k \in DOMAIN asins : ~IsNull(asins[k].filter_status)

\* every external call of the enrichment stage fails or is out of use
EnrichmentFails == input.hook_status # "ok" /\ input.apify_status # "ok"

StatSteps(st) == {st[i].step : i \in DOMAIN st}

\* C26: when every external call of the enrichment stage fails or is out
\* of use, the stage is followed by the listing-date filter, the price
\* filter and the export, and the run returns success true.
C26_EnrichmentBestEffort ==
    [][EnrichmentFails =>
          /\ op'.name = "enrich_with_sellerspirit_history" /\ pc = "step7_5" =>
                pc' = "step7_6" /\ report' = report
          /\ pc = "step7_6" /\ pc' # pc => op'.name = "filter_by_listing_date"
          /\ pc = "step8" /\ pc' # pc => op'.name = "filter_by_price"
          /\ pc = "step9" /\ pc' # pc =>
                /\ op'.name = "export_to_csv"
                /\ Len(report') = Len(report) + 1
                /\ report'[Len(report')].success
                /\ {"7.5", "7.6", "8"} \subseteq StatSteps(report'[Len(report')].stats)]_vars

\* a run returned success after its hook raised on a request for some asins
\* and its price provider raised too
C26_Witness ==
    /\ input.hook_status = "raises" /\ input.apify_status = "raises"
    /\ pc = "idle" /\ op.name = "export_to_csv"
    /\ report[Len(report)].success
    /\ \E i \in DOMAIN stats : stats[i].step = "7.5" /\ stats[i].total_asins > 0

\* the search collaborator was called in this step and raised
SearchFailed == op'.name = "scrape_keyword" /\ pc = "idle" /\ ~op'.arg.success

\* C27: a run returns success false exactly when its search fails; then no
\* other step of the run is executed and the table is left as it was; every
\* other run returns success true; the exit code of the process is 0
\* exactly when the run returned success true.
C27_SearchIsMandatory ==
    [][/\ SearchFailed =>
             /\ Len(report') = Len(report) + 1
             /\ ~report'[Len(report')].success
             /\ pc' = "idle"
             /\ asins' = asins
       /\ Len(report') = Len(report) + 1 =>
             /\ report'[Len(report')].success <=> ~SearchFailed
             /\ report'[Len(report')].exit_code = 0 <=> report'[Len(report')].success
             /\ report'[Len(report')].success => op'.name = "export_to_csv"
       /\ pc' = "idle" /\ pc # "idle" => Len(report') = Len(report) + 1]_vars

\* a search failed over a table that holds a tagged record
C27_Witness ==
    /\ pc = "idle" /\ op.name = "scrape_keyword"
    /\ Len(report) > 0 /\ ~report[Len(report)].success
    /\ report[Len(report)].exit_code = 1
    /\ \E k \in DOMAIN asins : asins[k].filter_status = Val(TagSponsored)

----------------------------------------------------------------------------
(* Properties of the judgments in flight                                   *)

\* the judgments that were started and have not returned
InFlight(a) == Indices(a, "calling") \cup Indices(a, "sleeping")

\* C31 (as claimed): during a batch the number of judgments in flight is at
\* most the current limit, also right after a transient failure lowered it.
C31_BoundedInFlight ==
    ai.pc # "idle" => Cardinality(InFlight(ai)) <= ai.current_concurrent

----------------------------------------------------------------------------
(* Properties of the end of a batch                                        *)

\* the task of product i was started and is over
Over(a, i) == a.tasks[i].st \in {"sleeping", "done", "collected", "cancelled"}

\* C39: a batch that was started returns; the judge is asked at most
\* max_retries times for a product, and never again once its judgment is
\* over; the batch returns either from the early stop or with no product
\* pending and no judgment active.
C39_BatchTerminates ==
    /\ (ai.pc # "idle") ~> (ai.pc = "idle" /\ ai.batches > 0)
    /\ [][/\ JudgeAnswered =>
                /\ ai.tasks[Judged].attempt + 1 <= DefaultMaxRetries
                /\ ai'.tasks[Judged].st = "calling" =>
                      ai'.tasks[Judged].attempt = ai.tasks[Judged].attempt + 1
          /\ ai.pc # "idle" =>
                \A i \in DOMAIN ai.tasks : Over(ai, i) => Over(ai', i)
          /\ ai.pc # "idle" /\ ai'.pc = "idle" =>
                \/ op'.name = "cancel" /\ Len(ai.relevant_products) >= input.max_results
                \/ pending_indices(ai') = {} /\ active_tasks(ai') = {}]_vars

\* a batch returned after the judge was asked three times for a product
\* and gave no verdict
C39_Witness ==
    /\ BatchReturned
    /\ input.products > 1
    /\ \E i \in DOMAIN ai.tasks : ai.tasks[i].st = "collected" /\ IsNull(ai.tasks[i].result)
    /\ \E i \in DOMAIN ai.tasks : ai.tasks[i].st = "collected" /\ ~IsNull(ai.tasks[i].result)

-----------------------------------------------------------------------------
(* GeminiCategoryAnalyzer (src/ai_analyzer.py): one call of the judge for  *)
(* the whole list of categories                                            *)

MaxStats == 3                   \* longest category_stats of NextCategories
DefaultMaxCategories == 10      \* ai_analyzer.py:374

CATEGORY_NAMES == {"Tents", "Chairs", "Other"}

\* a row of the statistics of analyze_categories
Stat(category) == [category |-> category]

\* what generate_content does for the list: it raises, or returns a text
\* that json.loads refuses, or a JSON array of objects
Unparsable == [raises |-> FALSE, parsed |-> FALSE]
Validations(items) == [raises |-> FALSE, parsed |-> TRUE, items |-> items]
CategoryValidation(category, is_relevant) == [category |-> category, is_relevant |-> is_relevant]

VALIDATION_ITEMS == {CategoryValidation(c, v) : c \in CATEGORY_NAMES,
                       v \in {JBool(TRUE), JBool(FALSE), JStr("yes"), JNull}}

CATEGORY_RESPONSES ==
    {Raise({"503"}), Unparsable} \cup
    {Validations(items) : items \in {<<>>} \cup {<<i>> : i \in VALIDATION_ITEMS}
                                          \cup {<<i, j>> : i \in VALIDATION_ITEMS, j \in VALIDATION_ITEMS}}

\* is_relevant of a CategoryValidation: of a string membership in
\* ['true', 'yes', '1'], of anything else bool()
category_is_relevant(v) ==
    IF v.type = "str" THEN v.s \in {"true", "yes", "1"}
    ELSE IF v.type = "bool" THEN v.b
    ELSE FALSE

\* _parse_categories_response: [] when the text cannot be read
parse_categories_response(response) ==
    IF ~response.parsed THEN <<>>
    ELSE [i \in DOMAIN response.items |->
             [category |-> response.items[i].category,
              is_relevant |-> category_is_relevant(response.items[i].is_relevant)]]

\* validation_map.get(cat_name): the last validation of the category
validation_map(validations, cat_name) ==
    LET named == {i \in DOMAIN validations : validations[i].category = cat_name}
    IN  IF named = {} THEN Null
        ELSE Val(validations[CHOOSE i \in named : \A j \in named : j <= i])

FirstN(seq, n) == SubSeq(seq, 1, IF Len(seq) < n THEN Len(seq) ELSE n)

\* the except branch of filter_categories
ReturnOriginal(valid_stats, max_categories) == FirstN(valid_stats, max_categories)

\* the names sent to the judge (the first 30) play no part in what is
\* returned: every row that is not Other is looked up in the answer
filter_categories(category_stats, response, max_categories) ==
    LET NotOther(s) == s.category # "Other"
        valid_stats == SelectSeq(category_stats, NotOther)
    IN  IF category_stats = <<>> \/ valid_stats = <<>> THEN <<>>
        ELSE IF response.raises THEN ReturnOriginal(valid_stats, max_categories)
        ELSE LET validations == parse_categories_response(response)
                 Relevant(s) ==
                     LET validation == validation_map(validations, s.category)
                     IN  ~IsNull(validation) /\ The(validation).is_relevant
                 relevant_stats == SelectSeq(valid_stats, Relevant)
             IN  FirstN(relevant_stats, max_categories)

STAT_LISTS == UNION {[1..n -> {Stat(c) : c \in CATEGORY_NAMES}] : n \in 0..MaxStats}

CategoryInputs ==
    [ category_stats : STAT_LISTS, response : CATEGORY_RESPONSES,
      max_categories : {1, 2, DefaultMaxCategories} ]

InitCategories ==
    /\ asins = <<>>
    /\ ss_data = [k \in KEYWORDS |-> <<>>]
    /\ op = [name |-> "init", keyword |-> "", arg |-> <<>>]
    /\ ret = 0
    /\ pc = "idle"
    /\ runs = 0
    /\ input \in CategoryInputs
    /\ results = <<>>
    /\ stats = <<>>
    /\ report = <<>>
    /\ saved = <<>>
    /\ cache = <<>>
    /\ now = 0
    /\ fetchers = <<>>
    /\ ai = <<>>
    /\ history_cache = <<>>

FilterCategories ==
    /\ op.name = "init"
    /\ ret' = filter_categories(input.category_stats, input.response, input.max_categories)
    /\ op' = [name |-> "filter_categories", keyword |-> "", arg |-> <<>>]
    /\ UNCHANGED <<asins, ss_data, pc, runs, input, results, stats, report, saved,
                   cache, now, fetchers, ai, history_cache>>

NextCategories == FilterCategories

SpecCategories == InitCategories /\ [][NextCategories]_vars

-----------------------------------------------------------------------------
(* Properties of the pruning of categories                                 *)

\* the judge answered is_relevant true for the category
JudgedRelevant(category) ==
    /\ ~input.response.raises
    /\ input.response.parsed
    /\ \E i \in DOMAIN input.response.items :
          /\ input.response.items[i].category = category
          /\ category_is_relevant(input.response.items[i].is_relevant)

\* sub is what is left of seq when some of its rows are taken out
IsSubsequence(sub, seq) ==
    \E f \in [DOMAIN sub -> DOMAIN seq] :
       /\ \A i \in DOMAIN sub : sub[i] = seq[f[i]]
       /\ \A i, j \in DOMAIN sub : i < j => f[i] < f[j]

\* C40 (as claimed): whatever the judge call does (answer, unparsable
\* answer, error), filter_categories returns only categories the judge
\* answered is_relevant true for, never Other, at most max_categories of
\* them, in the order of the input statistics.
C40_OnlyJudgedRelevant ==
    op.name = "filter_categories" =>
       /\ \A i \in DOMAIN ret : /\ ret[i].category # "Other"
                                /\ JudgedRelevant(ret[i].category)
       /\ Len(ret) <= input.max_categories
       /\ IsSubsequence(ret, input.category_stats)

\* what holds of every outcome: never Other, at most max_categories, in
\* the order of the input; judged relevant when the call did not raise
C40_PrunedUnlessError ==
    op.name = "filter_categories" =>
       /\ \A i \in DOMAIN ret : /\ ret[i].category # "Other"
                                /\ ~input.response.raises => JudgedRelevant(ret[i].category)
       /\ Len(ret) <= input.max_categories
       /\ IsSubsequence(ret, input.category_stats)
       /\ ~input.response.raises /\ ~input.response.parsed => ret = <<>>

-----------------------------------------------------------------------------
(* Properties of fresh and cached answers                                  *)

\* fetcher q started after fetcher p had returned, p answered for the asin
\* from the provider and wrote the entry, q answered from that entry
ServedFromEntryOf(p, q, asin) ==
    /\ fetchers[p].pc = "done" /\ fetchers[q].pc = "done"
    /\ p \in fetchers[q].after
    /\ asin \in DOMAIN fetchers[p].results /\ ~fetchers[p].results[asin].from_cache
    /\ asin \in DOMAIN fetchers[q].results /\ fetchers[q].results[asin].from_cache
    /\ asin \in DOMAIN saved /\ saved[asin].by = p

\* C32 (as claimed): the price_min, price_max and dates that
\* get_multiple_price_history returns for an identifier on the fresh fetch
\* equal those a later call returns from the cache entry that fetch wrote.
C32_FreshEqualsCached ==
    \A p, q \in FETCHERS : \A asin \in CACHE_IDS :
       ServedFromEntryOf(p, q, asin) =>
          StoredSummary(fetchers[p].results[asin]) = StoredSummary(fetchers[q].results[asin])

\* what holds: they agree when the first series of the payload that is not
\* empty has a point of positive price and the chosen points carry a date
C32_AgreeOnDatedSeries ==
    \A p, q \in FETCHERS : \A asin \in CACHE_IDS :
       ServedFromEntryOf(p, q, asin) /\ fetchers[p].results[asin].history_count > 0
          /\ fetchers[p].results[asin].price_min_date # Val(EmptyDate)
          /\ fetchers[p].results[asin].price_max_date # Val(EmptyDate) =>
          StoredSummary(fetchers[p].results[asin]) = StoredSummary(fetchers[q].results[asin])

-----------------------------------------------------------------------------
(* Properties of the price stage of run()                                  *)

\* what step 6 of the run in progress returned
Step6Result == stats[CHOOSE i \in DOMAIN stats : stats[i].step = "6"]

\* the statistics of step 6 that are available
Available == Step6Result.avg_price \cup Step6Result.median_price

Threshold == CHOOSE x \in Available : \A y \in Available : x <= y

\* the price stage of run() has just been carried out
PriceStage == pc = "step8" /\ pc' # "step8"

\* C33: the price stage takes as threshold the smaller of the mean and the
\* median price step 6 of the same run returned (the one available when
\* only one is); with neither it tags nothing and reports skipped.  After
\* it every unfiltered record of the keyword has an unknown price or a
\* price not above the threshold, and the records it tagged have a price
\* above the threshold.
C33_PriceThreshold ==
    [][ PriceStage =>
          IF Available = {}
          THEN asins' = asins /\ ret'.skipped
          ELSE /\ ~ret'.skipped
               /\ DOMAIN asins' = DOMAIN asins
               /\ \A k \in Unfiltered(asins', input.keyword) :
                     \/ IsNull(asins'[k].price)
                     \/ The(asins'[k].price) <= Threshold
               /\ \A k \in DOMAIN asins :
                     asins'[k] # asins[k] =>
                        /\ asins'[k] = [asins[k] EXCEPT !.filter_status = Val(TagPrice)]
                        /\ k \in Unfiltered(asins, input.keyword)
                        /\ The(asins[k].price) > Threshold ]_vars

\* the price stage has tagged a record and kept another, with a mean above
\* the median
C33_Witness ==
    /\ op.name = "filter_by_price"
    /\ ~ret.skipped
    /\ ret.removed > 0
    /\ ret.kept > 0
    /\ The(Step6Result.median_price) < The(Step6Result.avg_price)

\* the price stage was skipped
C33_Skipped == op.name = "filter_by_price" /\ ret.skipped /\ Unfiltered(asins, input.keyword) # {}

\* the mean was the threshold
C33_MeanBelow ==
    /\ op.name = "filter_by_price" /\ ~ret.skipped
    /\ The(Step6Result.median_price) > The(Step6Result.avg_price)

-----------------------------------------------------------------------------
(* The enrichment and category updates of the store on tables of one or    *)
(* two keywords, with the sponsored stage to tag rows                      *)

\* a sponsored row with history and a row without
UpdateRows ==
    { Row("k1", 1, Val("X"), Val(200), 2, Val(OldDay), Val(DefaultMonths + 1)),
      Row("k1", 0, Null, Val(100), 0, Null, Null) }

UpdateTables ==
    TablesOver(UpdateRows) \cup {WithOtherKeyword(db) : db \in TablesOver(UpdateRows)}

InitUpdate ==
    /\ asins \in UpdateTables
    /\ ss_data = [k \in KEYWORDS |-> <<>>]
    /\ op = [name |-> "init", keyword |-> "", arg |-> <<>>]
    /\ ret = 0
    /\ pc = "idle"
    /\ runs = 0
    /\ input = NoRun
    /\ results = <<>>
    /\ stats = <<>>
    /\ report = <<>>
    /\ saved = <<>>
    /\ cache = <<>>
    /\ now = 0
    /\ fetchers = <<>>
    /\ ai = <<>>
    /\ history_cache = <<>>

NextUpdate ==
    \/ FilterSponsoredAsins
    \/ BatchUpdateAsinCategories
    \/ BatchUpdateSellerspiritHistory
    \/ UpdatePriceHistory

SpecUpdate == InitUpdate /\ [][NextUpdate]_vars

-----------------------------------------------------------------------------
(* Properties of the enrichment and category updates of the store          *)

UpdateNames ==
    {"batch_update_sellerspirit_history", "update_price_history",
     "batch_update_asin_categories"}

\* C36: batch_update_sellerspirit_history, update_price_history and
\* batch_update_asin_categories change no record's filter_status, create
\* no record, delete none, and change only records of the given keyword.
C36_UpdatesLeaveFilterState ==
    [][ op'.name \in UpdateNames =>
          /\ DOMAIN asins' = DOMAIN asins
          /\ \A k \in DOMAIN asins :
                /\ asins'[k].filter_status = asins[k].filter_status
                /\ k[2] # op'.keyword => asins'[k] = asins[k] ]_vars

\* update_price_history has changed the row of a1 under one keyword, a
\* tagged row, while the other keyword holds a1 too with another value
C36_Witness ==
    /\ op.name = "update_price_history"
    /\ op.arg = "a1"
    /\ \A kw \in KEYWORDS : <<"a1", kw>> \in DOMAIN asins
    /\ ~IsNull(asins[<<"a1", op.keyword>>].filter_status)
    /\ \E kw \in KEYWORDS :
          asins[<<"a1", kw>>].price_min # asins[<<"a1", op.keyword>>].price_min

-----------------------------------------------------------------------------
(* Properties of what the enrichment stage leaves in the table             *)

\* the enrichment stage of run() has just been carried out
EnrichmentStage == pc = "step7_5" /\ pc' # "step7_5"

\* no enrichment column of the row that held a value is null afterwards
KeepsValues(before, after) ==
    /\ ~IsNull(before.listing_date) => ~IsNull(after.listing_date)
    /\ ~IsNull(before.sales_months_count) => ~IsNull(after.sales_months_count)
    /\ ~IsNull(before.price_min) => ~IsNull(after.price_min)

\* C37 (as claimed): the enrichment stage never replaces a stored non-null
\* enrichment value of a record with null; with a provider that is
\* unavailable or returns nothing for an identifier, the values an earlier
\* run stored are kept.
C37_EnrichmentNeverLoses ==
    [][ EnrichmentStage =>
          \A k \in DOMAIN asins : KeepsValues(asins[k], asins'[k]) ]_vars

\* what holds: the stage keeps the values when no provider delivered an
\* entry (login refused, exception, no asin to enrich)
C37_KeptWithoutEntries ==
    [][ EnrichmentStage /\ input.hook_status \in {"login_failed", "raises"} =>
          asins' = asins ]_vars

-----------------------------------------------------------------------------
(* The reset, the filter stages, the distribution queries and the export   *)
(* on tables of two keywords that hold the same identifier                 *)

IsolationRows ==
    { QueryRow(1, Val("X"), Val(200), 2, Val(OldDay), Val(DefaultMonths + 1),
               Val(45), Val(10), Val(1)),
      QueryRow(0, Val("Y"), Val(100), 0, Val(NewDay), Null, Null, Val(10), Val(2)) }

\* a row of k2 that every stage but the category stage would tag
OtherRow ==
    [QueryRow(1, Val("Y"), Val(200), 2, Val(OldDay), Val(DefaultMonths + 1),
              Val(40), Val(3), Val(1)) EXCEPT !.source_value = "k2"]

WithOtherRows(db) ==
    [k \in DOMAIN db \cup {<<"a1", "k2">>} |->
        IF k = <<"a1", "k2">> THEN OtherRow ELSE db[k]]

InitIsolation ==
    /\ asins \in {WithOtherRows(db) : db \in TablesOver(IsolationRows)}
    /\ ss_data = [k \in KEYWORDS |-> <<>>]
    /\ op = [name |-> "init", keyword |-> "", arg |-> <<>>]
    /\ ret = 0
    /\ pc = "idle"
    /\ runs = 0
    /\ input = NoRun
    /\ results = <<>>
    /\ stats = <<>>
    /\ report = <<>>
    /\ saved = <<>>
    /\ cache = <<>>
    /\ now = 0
    /\ fetchers = <<>>
    /\ ai = <<>>
    /\ history_cache = <<>>

NextIsolation ==
    \/ ResetFilterStatus
    \/ FilterSponsoredAsins
    \/ FilterByTopCategory
    \/ FilterLowSalesAsins({1})
    \/ FilterByPrice({100})
    \/ FilterByListingDate
    \/ GetSponsoredDistribution
    \/ GetCategoryDistribution
    \/ GetSalesDistribution
    \/ GetPriceDistribution
    \/ GetListingDateDistribution
    \/ GetFilteredAsinsOrdered

SpecIsolation == InitIsolation /\ [][NextIsolation]_vars

-----------------------------------------------------------------------------
(* Properties of the isolation of keywords                                 *)

\* the table without the rows of the other keywords
Only(db, keyword) == [k \in {j \in DOMAIN db : j[2] = keyword} |-> db[k]]

\* what the call named in op' does on a table
Changed(name, db, keyword, arg) ==
    CASE name = "reset_filter_status" -> reset_filter_status(db, keyword)
      [] name = "filter_sponsored_asins" -> filter_sponsored_asins(db, keyword)
      [] name = "filter_by_top_category" -> filter_by_top_category(db, keyword)
      [] name = "filter_low_sales_asins" -> filter_low_sales_asins(db, keyword, arg)
      [] name = "filter_by_price" -> db_filter_by_price(db, keyword, arg)
      [] name = "filter_by_listing_date" -> db_filter_by_listing_date(db, keyword, arg)

Answered(name, db, keyword, arg) ==
    CASE name = "get_sponsored_distribution" -> {get_sponsored_distribution(db, keyword)}
      [] name = "get_category_distribution" -> {get_category_distribution(db, keyword)}
      [] name = "get_sales_distribution" -> {get_sales_distribution(db, keyword, arg)}
      [] name = "get_price_distribution" -> {get_price_distribution(db, keyword, arg)}
      [] name = "get_listing_date_distribution" ->
            {get_listing_date_distribution(db, keyword, arg)}
      [] name = "get_filtered_asins" -> ExportOrders(db, keyword, arg)

\* C38: reset, every filter stage, every distribution query and the export
\* called for keyword K read and change only records of K: the records of
\* the other keyword are left as they were, and what the call returns and
\* does to the records of K is what it returns and does on the table
\* without the records of the other keyword, also when both keywords hold
\* the same identifier.
C38_KeywordIsolation ==
    [][ LET K == op'.keyword
            mine == Only(asins, K)
        IN /\ op'.name \in FilterStageNames \cup {"reset_filter_status"} =>
                 /\ DOMAIN asins' = DOMAIN asins
                 /\ \A k \in DOMAIN asins : k[2] # K => asins'[k] = asins[k]
                 /\ Only(asins', K) = Changed(op'.name, mine, K, op'.arg).db
                 /\ ret' = Changed(op'.name, mine, K, op'.arg).ret
           /\ op'.name \in DistributionNames \cup {"get_filtered_asins"} =>
                 /\ asins' = asins
                 /\ ret' \in Answered(op'.name, mine, K, op'.arg) ]_vars

\* a stage has tagged a row of one keyword while the other keyword holds
\* the same identifier untagged, and rows of both keywords would match
C38_Witness ==
    /\ op.name \in FilterStageNames
    /\ \E a \in ASINS :
          /\ \A kw \in KEYWORDS : <<a, kw>> \in DOMAIN asins
          /\ ~IsNull(asins[<<a, op.keyword>>].filter_status)
          /\ \E kw \in KEYWORDS : IsNull(asins[<<a, kw>>].filter_status)
                                     /\ asins[<<a, kw>>].is_sponsored = 1

-----------------------------------------------------------------------------
(* scraper.py: the search of step 1 and the category expansion of steps 3  *)
(* and 4, called in any order on tables of today and of the day before     *)

DefaultTopN == 3                \* scraper.py:479
DefaultTopNAsins == 300         \* scraper.py:561
DefaultTopNCategories == 3      \* scraper.py:562

\* str.lower() on the category names in use
LowerName(name) == IF name = "X" THEN "x" ELSE IF name = "Y" THEN "y" ELSE name

has_today_category_data(db, keyword, source_type, source_value) ==
    \E k \in Keys(db, keyword) :
       /\ db[k].source_type = source_type
       /\ db[k].source_value = source_value
       /\ db[k].created_at = Today

\* the lowered source_value of the rows of today with the source_type
get_today_scraped_categories(db, keyword, source_type) ==
    {LowerName(db[k].source_value) :
        k \in {j \in Keys(db, keyword) :
                  db[j].source_type = source_type /\ db[j].created_at = Today}}

\* the search results kept for saving: all of them, or those with an
\* asin that is not stored for the keyword
AllResults(search_results, existing_asins) == search_results
NewResults(search_results, existing_asins) ==
    LET New(r) == ~(IsNull(r.asin) \/ r.asin = Val("")) /\ The(r.asin) \notin existing_asins
    IN SelectSeq(search_results, New)

\* what an expansion has done so far
Expansion(db, searched, tasks, new_asins) ==
    [db |-> db, searched |-> searched, tasks |-> tasks, new_asins |-> new_asins]

\* the task_type create_task gets, before the ":" and the category
TaskType(source_type) ==
    IF source_type = "category_search" THEN "category_expansion" ELSE "round3_category"

\* one round of the loop over the categories.  scraped: the categories
\* step 4 leaves out because step 3 searched them today.  An exception of
\* the search marks the task failed and the loop goes on.
ExpandCategory(r, keyword, category, source_type, scraped, answers, raising) ==
    IF LowerName(category) \in scraped THEN r
    ELSE IF has_today_category_data(r.db, keyword, source_type, category) THEN r
    ELSE LET search_query == <<keyword, LowerName(category)>>
             started == Expansion(r.db, Append(r.searched, search_query),
                                  Append(r.tasks, <<TaskType(source_type), category>>),
                                  r.new_asins)
             new_results == NewResults(answers[LowerName(category)],
                                       get_existing_asins(r.db, keyword))
         IN IF LowerName(category) \in raising THEN started
            ELSE [started EXCEPT
                     !.db = save_asins(r.db, new_results, keyword, source_type, category).db,
                     !.new_asins = r.new_asins + Len(new_results)]

RECURSIVE ExpandCategories(_, _, _, _, _, _, _)
ExpandCategories(r, keyword, categories, source_type, scraped, answers, raising) ==
    IF categories = <<>> THEN r
    ELSE ExpandCategories(ExpandCategory(r, keyword, Head(categories), source_type,
                                         scraped, answers, raising),
                          keyword, Tail(categories), source_type, scraped, answers, raising)

\* step 3; category_stats is a list of category names
scrape_top_categories(db, keyword, category_stats, top_n, answers, raising) ==
    LET NotOther(c) == c # "Other"
        top_categories == FirstN(SelectSeq(category_stats, NotOther), top_n)
        r == ExpandCategories(Expansion(db, <<>>, <<>>, 0), keyword, top_categories,
                              "category_search", {}, answers, raising)
    IN [ db |-> r.db, searched |-> r.searched, tasks |-> r.tasks,
         ret |-> [success |-> TRUE, categories_scraped |-> Len(top_categories),
                  new_asins |-> r.new_asins] ]

\* the categories of category_map by count, largest first; sorted() keeps
\* categories of equal count in the order the map yields them
SortedCategories(category_map) ==
    LET cats == {The(category_map[a]) : a \in DOMAIN category_map}
        Count(c) == Cardinality({a \in DOMAIN category_map : category_map[a] = Val(c)})
    IN {q \in Orderings(cats) :
           \A i, j \in DOMAIN q : i < j => Count(q[i]) >= Count(q[j])}

\* the asins of the first top_n_asins search results
TopAsins(search_results, top_n_asins) ==
    LET first == FirstN(search_results, top_n_asins)
    IN {The(first[i].asin) :
           i \in {j \in DOMAIN first :
                     ~(IsNull(first[j].asin) \/ first[j].asin = Val(""))}}

\* step 4 with the categories in the order sorted_categories; ss is the
\* sellerspirit_data table
scrape_round3(db, ss, keyword, search_results, hook_status, hook, sorted_categories, top_n_categories, answers, raising) ==
    LET top_asins == TopAsins(search_results, DefaultTopNAsins)
        h == fetch_sellerspirit_hook_data(ss, top_asins, keyword, hook)
        top_categories_list == FirstN(sorted_categories, top_n_categories)
        r == ExpandCategories(Expansion(db, <<>>, <<>>, 0), keyword, top_categories_list,
                              "round3_category",
                              get_today_scraped_categories(db, keyword, "category_search"),
                              answers, raising)
        failed == [ db |-> db, ss |-> ss, searched |-> <<>>, tasks |-> <<>>,
                    ret |-> [success |-> FALSE, categories_scraped |-> 0, new_asins |-> 0] ]
    IN IF hook_status # "ok" \/ top_asins = {} THEN failed
       ELSE IF DOMAIN h.map = {} THEN [failed EXCEPT !.ss = h.ss]
       ELSE [ db |-> r.db, ss |-> h.ss, searched |-> r.searched, tasks |-> r.tasks,
              ret |-> [success |-> TRUE, categories_scraped |-> Len(top_categories_list),
                       new_asins |-> r.new_asins] ]

\* what the search answers for a category
Found(a) == Item(Val(a), Val(FALSE), Val("X"), Val(100), Val(0), Null)

CategoryAnswers ==
    { <<>>, <<Found("a1"), Found("a2")>>, <<Found("a3"), Found("a3")>> }

StatLists ==
    { <<>>, <<"Other">>, <<"x">>, <<"Other", "Y", "x">>, <<"X", "Y">> }

\* a search row of a1, of today or of the day before, alone or next to a
\* row of a2 that step 3 or step 4 found for x, X or Y
StoredFor(source_type, source_value, created_at) ==
    [NewRow(Item(Val("a2"), Val(TRUE), Val("Y"), Val(200), Val(2), Null),
            source_type, source_value) EXCEPT !.created_at = created_at]

ExpandTables ==
    {<<>>} \cup
    { [k \in {<<"a1", "k1">>} |->
         [NewRow(Item(Val("a1"), Val(TRUE), Val("Y"), Val(200), Val(2), Null),
                 "keyword_search", "k1") EXCEPT !.created_at = day]] :
        day \in {Today - 1, Today} } \cup
    { [k \in {<<"a1", "k1">>, <<"a2", "k1">>} |->
         IF k[1] = "a1"
         THEN NewRow(Item(Val("a1"), Val(TRUE), Val("Y"), Val(200), Val(2), Null),
                     "keyword_search", "k1")
         ELSE StoredFor(found[1], found[2], day)] :
        found \in {<<"category_search", "x">>, <<"category_search", "Y">>,
                   <<"round3_category", "X">>},
        day \in {Today - 1, Today} }

ExpandInputs ==
    [ keyword : {"k1"},
      search : {<<>>, <<Found("a1"), Found("a3")>>},
      category_stats : StatLists, top_n : {1, DefaultTopN},
      answers : [{"x", "y"} -> CategoryAnswers], raising : {{}, {"x"}},
      hook : { [a \in {"a1", "a3"} |-> HookItem(Val(IF a = "a1" THEN "X" ELSE "Y"), Null, 0)] },
      hook_status : {"ok", "unavailable"} ]

InitExpand ==
    /\ asins \in ExpandTables
    /\ ss_data = [k \in KEYWORDS |-> <<>>]
    /\ op = [name |-> "init", keyword |-> "", arg |-> <<>>]
    /\ ret = 0
    /\ pc = "idle"
    /\ runs = 0
    /\ input \in ExpandInputs
    /\ results = <<>>
    /\ stats = <<>>
    /\ report = <<>>
    /\ saved = <<>>
    /\ cache = <<>>
    /\ now = 0
    /\ fetchers = <<>>
    /\ ai = <<>>
    /\ history_cache = <<>>

\* op.arg: the search queries made and the tasks created by the call
ExpandStep(name, r) ==
    /\ asins' = r.db
    /\ ret' = r.ret
    /\ op' = [name |-> name, keyword |-> input.keyword,
              arg |-> [searched |-> r.searched, tasks |-> r.tasks]]
    /\ UNCHANGED <<pc, runs, input, stats, report, saved, cache, now, fetchers, ai,
                   history_cache>>

ScrapeKeywordAgain ==
    \E raises \in BOOLEAN :
       LET r == scrape_keyword(asins, input.keyword, input.search, raises)
       IN /\ ExpandStep("scrape_keyword",
                        [ db |-> r.db, searched |-> r.searched, tasks |-> r.tasks,
                          ret |-> [success |-> r.success, from_cache |-> r.from_cache,
                                   search_results |-> r.search_results] ])
          /\ results' = r.search_results
          /\ UNCHANGED ss_data

ScrapeTopCategories ==
    /\ ExpandStep("scrape_top_categories",
                  scrape_top_categories(asins, input.keyword, input.category_stats,
                                        input.top_n, input.answers, input.raising))
    /\ UNCHANGED <<ss_data, results>>

ScrapeRound3 ==
    \E sorted_categories \in
          SortedCategories(fetch_sellerspirit_hook_data(
                               ss_data, TopAsins(results, DefaultTopNAsins),
                               input.keyword, HookOf(input)).map) :
       LET r == scrape_round3(asins, ss_data, input.keyword, results, input.hook_status,
                              HookOf(input), sorted_categories, DefaultTopNCategories,
                              input.answers, input.raising)
       IN /\ ExpandStep("scrape_round3", r)
          /\ ss_data' = r.ss
          /\ UNCHANGED results

NextExpand ==
    \/ ScrapeKeywordAgain
    \/ ScrapeTopCategories
    \/ ScrapeRound3

SpecExpand == InitExpand /\ [][NextExpand]_vars


\* the call of the search or of an expansion stage made by this step
ExpandCall(name) == op'.name = name /\ (op' # op \/ asins' # asins \/ ret' # ret)

\* the store holds a record of the keyword with this provenance, created
\* today
CreatedToday(source_type, source_value) ==
    \E k \in DOMAIN asins :
       /\ k[2] = input.keyword
       /\ asins[k].source_type = source_type
       /\ asins[k].source_value = source_value
       /\ asins[k].created_at = Today

\* the stored records of the keyword from today's keyword search, as items
StoredToday ==
    { Item(Val(k[1]), Null, asins[k].category_sub, asins[k].price,
           asins[k].sales_volume, Null) :
        k \in {j \in DOMAIN asins : /\ j[2] = input.keyword
                                    /\ asins[j].source_type = "keyword_search"
                                    /\ asins[j].created_at = Today} }

\* the categories a stage searched: those it created a task for
Searched == {op'.arg.tasks[i][2] : i \in DOMAIN op'.arg.tasks}

SearchReuse ==
    op'.name = "scrape_keyword" /\ CreatedToday("keyword_search", input.keyword) =>
       /\ op'.arg.searched = <<>>
       /\ op'.arg.tasks = <<>>
       /\ asins' = asins
       /\ ret'.success /\ ret'.from_cache
       /\ {ret'.search_results[i] : i \in DOMAIN ret'.search_results} = StoredToday
       /\ Len(ret'.search_results) = Cardinality(StoredToday)

\* C34 (as claimed): with a keyword_search record of the keyword created
\* today in the store, scrape_keyword calls no search, creates no task,
\* writes nothing and returns the stored records with from_cache true; and
\* an expansion stage searches no category that has a record created today
\* with the category as its source.
C34_SameDayReuse ==
    [][ /\ SearchReuse
        /\ op'.name \in {"scrape_top_categories", "scrape_round3"} =>
              \A c \in Searched :
                 ~\E source_type \in {"category_search", "round3_category"} :
                     CreatedToday(source_type, c) ]_vars

\* what holds: the search is reused as claimed, and each expansion stage
\* skips the categories with a record of today of its own source type (the
\* deep round also those of step 3, whatever their case)
C34_ReuseOfOwnStage ==
    [][ /\ SearchReuse
        /\ op'.name = "scrape_top_categories" =>
              \A c \in Searched : ~CreatedToday("category_search", c)
        /\ op'.name = "scrape_round3" =>
              \A c \in Searched :
                 /\ ~CreatedToday("round3_category", c)
                 /\ ~CreatedToday("category_search", c)
                 /\ ~CreatedToday("category_search", LowerName(c)) ]_vars

\* C35: the expansion stages insert only identifiers not stored for the
\* keyword: every record stored before the call is there after it, with
\* every field as it was.
C35_ExpansionOnlyAdds ==
    [][ op'.name \in {"scrape_top_categories", "scrape_round3"} =>
           \A k \in DOMAIN asins : k \in DOMAIN asins' /\ asins'[k] = asins[k] ]_vars

\* a stage has inserted a record found for a category next to a stored
\* record the search of the category also returned
C35_Witness ==
    /\ op.name \in {"scrape_top_categories", "scrape_round3"}
    /\ ret.new_asins > 0
    /\ <<"a1", "k1">> \in DOMAIN asins
    /\ asins[<<"a1", "k1">>].source_type = "keyword_search"
    /\ <<"a2", "k1">> \in DOMAIN asins
    /\ asins[<<"a2", "k1">>].source_type \in {"category_search", "round3_category"}
    /\ asins[<<"a2", "k1">>].price = Val(100)

====
